---------------------------- MODULE Spec2Model ----------------------------
(***************************************************************************)
(* Authentication and authorization layer of anything-LayerOne-LLM:        *)
(* bearer-token middlewares (unifiedAuth, adminOnlyAuth, requireAdmin,     *)
(* requireAdminJWT, validatedRequest, validateExternalToken), the two      *)
(* introspection caches (in-memory Map and cache_data table), external     *)
(* user provisioning and workspace query scoping.                          *)
(*                                                                         *)
(* Time is counted in seconds; Date.now() is DateNow (milliseconds).       *)
(* A bearer token is a record holding the string's first 20 characters     *)
(* (head), the rest of the string (tail) and what the string parses to.    *)
(***************************************************************************)
EXTENDS Integers, Sequences, FiniteSets, TLC

\* ------------------------------------------------------------------------
\* Bounds of the model
\* ------------------------------------------------------------------------
MaxTicks == 3

\* ------------------------------------------------------------------------
\* Program constants
\* ------------------------------------------------------------------------
skew == 60
MemoryTTLms == 30000

\* The clock advances by the lifetime of an in-memory cache entry.
TickStep == MemoryTTLms \div 1000

\* Absent values: None for a string, NoNum for a number, Null for an object.
None == "none"
NoNum == 0 - 1
Null == [null |-> TRUE]

\* ------------------------------------------------------------------------
\* Bearer tokens
\* ------------------------------------------------------------------------
\* An opaque string (API key secret or garbage): not three dot-separated
\* parts, so every JWT decode of it yields null.
Opaque(head, tail) ==
  [kind |-> "opaque", head |-> head, tail |-> tail, sig |-> None,
   role |-> None, id |-> NoNum, username |-> None, sub |-> None,
   exp |-> NoNum, p |-> None]

\* A structurally well-formed JWT: sig names the key that produced the
\* signature ("JWT_SECRET" local, "IDP" identity provider, None = no valid
\* signature under any configured key).  p is the single-user payload:
\* "good" decrypts to AUTH_TOKEN, "wrong" is well formed but decrypts to
\* something else.
Jwt(head, tail, sig, role, id, username, sub, exp) ==
  [kind |-> "jwt", head |-> head, tail |-> tail, sig |-> sig,
   role |-> role, id |-> id, username |-> username, sub |-> sub,
   exp |-> exp, p |-> None]

\* API key secrets (opaque), an opaque string that is no key, JWTs issued by
\* /request-token (signed with JWT_SECRET), a JWT carrying role admin with no
\* valid signature, and JWTs issued by the identity provider.  All RS256
\* tokens of the provider start with the same 20 characters.
KeyA       == Opaque("KEYA", "")
KeyB       == Opaque("KEYB", "")
KeyC       == Opaque("KEYC", "")
KeyD       == Opaque("KEYD", "")
KeyE       == Opaque("KEYE", "")
Garbage    == Opaque("invalid-token-12345", "")
AdminJwt   == Jwt("eyJhbGciOiJIUzI1NiIs", "adm", "JWT_SECRET", "admin", 1, "admin", None, 60)
ForgedJwt  == Jwt("eyJhbGciOiJIUzI1NiIs", "forged", None, "admin", 1, "admin", None, NoNum)
UserJwt    == Jwt("eyJhbGciOiJIUzI1NiIs", "usr", "JWT_SECRET", "default", 2, "bob", None, 90)
OrphanJwt  == Jwt("eyJhbGciOiJIUzI1NiIs", "orph", "JWT_SECRET", "admin", 9, "admin", None, 90)
PassJwt    == [Jwt("eyJhbGciOiJIUzI1NiIs", "pw", "JWT_SECRET", None, NoNum, None, None, 90)
                 EXCEPT !.p = "good"]
ExtJwtA    == Jwt("eyJhbGciOiJSUzI1NiIs", "extA", "IDP", "user", NoNum, None, "s1", 15)
ExtJwtB    == Jwt("eyJhbGciOiJSUzI1NiIs", "extB", "IDP", "user", NoNum, None, "s2", 90)
ExtJwtC    == Jwt("eyJhbGciOiJSUzI1NiIs", "extC", "IDP", "user", NoNum, None, "s3", 90)
ExtJwtD    == Jwt("eyJhbGciOiJSUzI1NiIs", "extD", "IDP", "user", NoNum, None, "s4", 90)
ExtJwtE    == Jwt("eyJhbGciOiJSUzI1NiIs", "extE", "IDP", "user", NoNum, None, "s3", NoNum)

ApiKeySecrets == {KeyA, KeyB, KeyC, KeyD, KeyE}
LocalJwts     == {AdminJwt, ForgedJwt, UserJwt, OrphanJwt, PassJwt}
ExternalJwts  == {ExtJwtA, ExtJwtB, ExtJwtC, ExtJwtD, ExtJwtE}
Tokens        == ApiKeySecrets \cup {Garbage} \cup LocalJwts \cup ExternalJwts

\* The Authorization header: absent, or "<scheme> <token>"; EmptyTok is the
\* empty string after the scheme word.
NoHeader == [scheme |-> None, token |-> Null]
EmptyTok == [kind |-> "empty"]
Header(scheme, token) == [scheme |-> scheme, token |-> token]
Headers ==
  {NoHeader} \cup {Header("Bearer", t) : t \in Tokens \cup {EmptyTok}}
             \cup {Header("Basic", t) : t \in {KeyA, AdminJwt}}

ExternalBearers == {Header("Bearer", t) : t \in ExternalJwts}

\* auth.startsWith("Bearer ")
startsWithBearer(auth) == auth # NoHeader /\ auth.scheme = "Bearer"

\* auth.split(" ")[1]; a falsy value (undefined or "") is Null
splitToken(auth) ==
  IF auth = NoHeader \/ auth.token = EmptyTok THEN Null ELSE auth.token

\* token.substring(0, 20)
substring20(token) == token.head

\* JWT.decode(token): the payload, without any verification; null for a
\* string that is not a JWT.
JWT_decode(token) == IF token.kind = "jwt" THEN token ELSE Null


\* ------------------------------------------------------------------------
\* Deployment configuration (process.env and ExternalAuthConfig)
\* ------------------------------------------------------------------------
\* EXTERNAL_AUTH_ENABLED as written in .env: Unset, "true", or "TRUE " (a
\* value that only equals "true" after trimming and lower-casing).
Unset == "unset"
EnabledRaw == {Unset, "true", "TRUE "}

\* String(raw || "").split("#")[0].trim().toLowerCase()
normalizeFlag(raw) == IF raw \in {"true", "TRUE "} THEN "true" ELSE ""

\* multiUserMode     SystemSettings.isMultiUserMode()
\* enabledRaw        process.env.EXTERNAL_AUTH_ENABLED
\* mode              EXTERNAL_AUTH_MODE
\* issuer, audience  EXTERNAL_AUTH_ISSUER, EXTERNAL_AUTH_AUDIENCE (None: unset)
\* development       NODE_ENV is "development"
\* authToken         AUTH_TOKEN is set
\* jwtSecret         JWT_SECRET is set
\* cacheTTL          EXTERNAL_AUTH_INTROSPECTION_CACHE_TTL, seconds
\* idpIss, idpAud     the iss and aud the identity provider reports
Deployment(multi, raw, iss, aud, dev, secret) ==
  [multiUserMode |-> multi, enabledRaw |-> raw, mode |-> "introspect",
   apiUrl |-> TRUE, issuer |-> iss, audience |-> aud, development |-> dev,
   authToken |-> TRUE, jwtSecret |-> secret, cacheTTL |-> 60,
   idpIss |-> "keystone", idpAud |-> "anythingllm"]

\* Multi-user mode, external authentication enabled, the issuer and the
\* audience the provider reports.
MultiUserIntrospecting ==
  Deployment(TRUE, "true", "keystone", "anythingllm", FALSE, TRUE)

Deployments ==
  { Deployment(TRUE,  "true",  "keystone", "anythingllm", FALSE, TRUE),
    Deployment(TRUE,  "true",  None,       None,          FALSE, TRUE),
    Deployment(TRUE,  "TRUE ", "keystone", "anythingllm", FALSE, TRUE),
    Deployment(TRUE,  Unset,   None,       None,          FALSE, FALSE),
    Deployment(TRUE,  Unset,   None,       None,          FALSE, TRUE),
    Deployment(FALSE, Unset,   None,       None,          TRUE,  TRUE),
    Deployment(FALSE, "true",  "keystone", "anythingllm", FALSE, TRUE) }

\* process.env.NODE_ENV === "development" || !AUTH_TOKEN || !JWT_SECRET
passthrough(cfg) == cfg.development \/ ~cfg.authToken \/ ~cfg.jwtSecret

\* ExternalAuthConfig.enabled: process.env.EXTERNAL_AUTH_ENABLED === "true"
ExternalAuthConfig_enabled(cfg) == cfg.enabledRaw = "true"

\* ------------------------------------------------------------------------
\* Stores: api_keys and users
\* ------------------------------------------------------------------------
ApiKeyRow(secret, createdBy) == [secret |-> secret, createdBy |-> createdBy]

\* Keys created by: the admin (1), a user since demoted to default (2), a
\* suspended admin (3), a user since deleted (9), and nobody.
ApiKeys ==
  { ApiKeyRow(KeyA, 1), ApiKeyRow(KeyB, 2), ApiKeyRow(KeyC, 3),
    ApiKeyRow(KeyD, 9), ApiKeyRow(KeyE, NoNum) }

User(id, username, role, suspended, externalId, externalProvider) ==
  [id |-> id, username |-> username, role |-> role, suspended |-> suspended,
   externalId |-> externalId, externalProvider |-> externalProvider]

\* Three local accounts; an account created ahead of its owner's first
\* external login (named user_<externalId>, not linked yet) and since
\* suspended; a suspended account provisioned for the same identity by
\* findOrCreateExternalUser; and the account syncExternalUser created when
\* the holder of s1 first logged in.
InitUsers ==
  { User(1, "admin", "admin",   FALSE, None, None),
    User(2, "bob",   "default", FALSE, None, None),
    User(3, "carol", "admin",   TRUE,  None, None),
    User(4, "user_s4",     "default", TRUE, None, None),
    User(5, "keystone:s4", "default", TRUE, "s4", "keystone"),
    User(6, "alice", "default", FALSE, "s1", "keystone-core-api") }

\* User.get({ id })
UserById(us, id) ==
  IF \E u \in us : u.id = id THEN CHOOSE u \in us : u.id = id ELSE Null

\* User.get({ username })
UserByUsername(us, name) ==
  IF \E u \in us : u.username = name
  THEN CHOOSE u \in us : u.username = name ELSE Null

\* User.get({ externalId, externalProvider })
UserByExternal(us, eid, prov) ==
  IF \E u \in us : u.externalId = eid /\ u.externalProvider = prov
  THEN CHOOSE u \in us : u.externalId = eid /\ u.externalProvider = prov
  ELSE Null

\* Variant: a lookup that finds a key for whatever secret it is given.
ApiKey_get_any(keys, token) == CHOOSE k \in keys : TRUE

\* Variant: a lookup that never finds a key.
ApiKey_get_none(keys, token) == Null

\* ApiKey.get({ secret: token })
ApiKey_get(keys, token) ==
  IF \E k \in keys : k.secret = token
  THEN CHOOSE k \in keys : k.secret = token ELSE Null

\* ------------------------------------------------------------------------
\* Clock
\* ------------------------------------------------------------------------
\* Date.now() for a clock reading of t seconds
DateNow(t) == t * 1000

\* ------------------------------------------------------------------------
\* jsonwebtoken and the local JWT helpers
\* ------------------------------------------------------------------------
\* JWT.verify(token, process.env.JWT_SECRET): the payload when JWT_SECRET is
\* set (secret), the string is a JWT signed with it and exp (if present) has
\* not passed; throws (Null) otherwise.
JWT_verify(token, secret, t) ==
  IF secret /\ token.kind = "jwt" /\ token.sig = "JWT_SECRET"
     /\ (token.exp = NoNum \/ t < token.exp)
  THEN token ELSE Null

\* decodeJWT of utils/http: JWT.verify with JWT_SECRET; on failure an object
\* whose p, id and username are null.
NullPayload ==
  [kind |-> "jwt", head |-> None, tail |-> None, sig |-> None, role |-> None,
   id |-> NoNum, username |-> None, sub |-> None, exp |-> NoNum, p |-> None]

decodeJWT(token, secret, t) ==
  IF JWT_verify(token, secret, t) # Null THEN JWT_verify(token, secret, t)
  ELSE NullPayload

\* verifyAdminJWT(token, verificationConfig = null).  Every caller in the
\* repository passes no verificationConfig, so the function takes its
\* fallback branch: JWT.decode without signature verification, then a
\* manual exp check and the role check.
verifyAdminJWT(token, t) ==
  IF token = Null THEN Null
  ELSE LET decoded == JWT_decode(token) IN
    IF decoded = Null THEN Null
    ELSE IF decoded.exp # NoNum /\ decoded.exp * 1000 < DateNow(t) THEN Null
    ELSE IF decoded.role # "admin" THEN Null
    ELSE decoded

\* verifyAdminJWTFromRequest(request)
verifyAdminJWTFromRequest(auth, t) ==
  IF auth = NoHeader THEN Null
  ELSE LET token == IF startsWithBearer(auth) THEN splitToken(auth) ELSE Null IN
    IF token = Null THEN Null ELSE verifyAdminJWT(token, t)


\* ------------------------------------------------------------------------
\* What a middleware leaves behind: the response, the calls of next() and
\* response.locals / request.user
\* ------------------------------------------------------------------------
Principal(type, sub, id, role, username, externalId, externalProvider, apiKey) ==
  [type |-> type, sub |-> sub, id |-> id, role |-> role, username |-> username,
   externalId |-> externalId, externalProvider |-> externalProvider,
   apiKey |-> apiKey]

\* { type: "admin", apiKey }
ApiKeyPrincipal(apiKey) ==
  Principal("admin", None, NoNum, None, None, None, None, apiKey)

\* request.user = { id, username, role }
ReqUser(id, username, role) == [id |-> id, username |-> username, role |-> role]

\* status 0: no response sent.  nexts: how often next() was called.
Outcome(status, error, nexts, principal, user, reqUser) ==
  [status |-> status, error |-> error, nexts |-> nexts,
   principal |-> principal, user |-> user, reqUser |-> reqUser]

Reject(status, error) == Outcome(status, error, 0, Null, Null, Null)
Accept(principal, user, reqUser) == Outcome(0, None, 1, principal, user, reqUser)

\* ------------------------------------------------------------------------
\* Workspace access scoping (utils/workspaces/access.js)
\* ------------------------------------------------------------------------
\* A Prisma query: where is Null when the key is absent; workspace_users
\* and its some clause likewise.
EmptySome  == [user_id |-> NoNum, role |-> None]
EmptyWU    == [some |-> Null, none |-> Null]
EmptyWhere == [slug |-> None, workspace_users |-> Null]

Queries ==
  { [where |-> Null, select |-> None],
    [where |-> [slug |-> "ws", workspace_users |-> Null], select |-> "id"],
    [where |-> [slug |-> "ws",
                workspace_users |->
                  [some |-> [user_id |-> 1, role |-> "manager"], none |-> Null]],
     select |-> None] }

\* No check has run / the check of this path ran with this outcome.
NoVerdict == [path |-> None, rejected |-> FALSE]
Verdict(path, rejected) == [path |-> path, rejected |-> rejected]

\* The value of the variable that holds what an access function returned,
\* before the call and after it.
\* ------------------------------------------------------------------------
\* Loading utils/auth/config.js
\* ------------------------------------------------------------------------
\* process.env: a variable is Unset or holds a string.
ProcessEnv(enabled, mode, apiUrl, serviceKey, jwtSecret, nodeEnv, requireHttps) ==
  [EXTERNAL_AUTH_ENABLED |-> enabled, EXTERNAL_AUTH_MODE |-> mode,
   EXTERNAL_AUTH_API_URL |-> apiUrl, EXTERNAL_API_SERVICE_KEY |-> serviceKey,
   EXTERNAL_AUTH_JWT_SECRET |-> jwtSecret, NODE_ENV |-> nodeEnv,
   EXTERNAL_AUTH_REQUIRE_HTTPS |-> requireHttps]

\* new URL(apiUrl).protocol; "TypeError" when the constructor throws.
URL_protocol(apiUrl) ==
  CASE apiUrl = "https://keystone.example" -> "https:"
    [] apiUrl = "HTTPS://keystone.example" -> "https:"
    [] apiUrl = "http://keystone.example"  -> "http:"
    [] OTHER -> "TypeError"

\* The object literal of config.js:14-26.
ExternalAuthConfig(penv) ==
  [enabled |-> penv.EXTERNAL_AUTH_ENABLED = "true",
   mode |-> IF penv.EXTERNAL_AUTH_MODE \in {Unset, ""} THEN "introspect"
            ELSE penv.EXTERNAL_AUTH_MODE,
   apiUrl |-> penv.EXTERNAL_AUTH_API_URL,
   serviceKey |-> penv.EXTERNAL_API_SERVICE_KEY,
   requireHTTPS |-> /\ penv.NODE_ENV = "production"
                    /\ penv.EXTERNAL_AUTH_REQUIRE_HTTPS # "false",
   jwtSecret |-> penv.EXTERNAL_AUTH_JWT_SECRET]

\* What the try block of config.js:44-48 throws: the TypeError of new URL,
\* or the error about the scheme; None when it runs through.
httpsCheck(cfg) ==
  IF URL_protocol(cfg.apiUrl) = "TypeError" THEN "Invalid URL"
  ELSE IF URL_protocol(cfg.apiUrl) # "https:"
  THEN "EXTERNAL_AUTH_API_URL must use HTTPS in production"
  ELSE None

\* Variant: what the try block throws leaves the module.
enforceHTTPS_uncaught(cfg) == httpsCheck(cfg)

\* config.js:43-52: the try block and its catch, which is empty: nothing
\* leaves the block.
enforceHTTPS(cfg) == IF httpsCheck(cfg) # None THEN None ELSE None

\* Loading the module (config.js:14-55): the error it throws, or None and
\* the exported object.
loadConfig(penv) ==
  LET cfg == ExternalAuthConfig(penv)
      thrown ==
        IF ~cfg.enabled THEN None
        ELSE IF cfg.apiUrl \in {Unset, ""}
        THEN "EXTERNAL_AUTH_API_URL required when EXTERNAL_AUTH_ENABLED=true"
        ELSE IF cfg.mode = "introspect" /\ cfg.serviceKey \in {Unset, ""}
        THEN "EXTERNAL_API_SERVICE_KEY required when EXTERNAL_AUTH_MODE=introspect"
        ELSE IF cfg.mode = "shared-secret" /\ cfg.jwtSecret \in {Unset, ""}
        THEN "EXTERNAL_AUTH_JWT_SECRET required when EXTERNAL_AUTH_MODE=shared-secret"
        ELSE IF cfg.requireHTTPS THEN enforceHTTPS(cfg)
        ELSE None
  IN [error |-> thrown, exports |-> IF thrown = None THEN cfg ELSE Null]

NotLoaded == [error |-> None, exports |-> Null]

\* The audit trail before any call of logAuthEvent: pending counts the
\* calls whose EventLogs.logEvent has not settled, failed tells whether
\* one settled in the latest step by throwing.
NoLogs == [pending |-> 0, failed |-> FALSE]

\* The audit trail is not followed.
NotFollowed == [pending |-> 0 - 1, failed |-> FALSE]

\* At most this many logEvent writes are pending at a time.
MaxPendingLogs == 2

Pending == [op |-> None, value |-> Null]
Returned(op, value) == [op |-> op, value |-> value]

\* response?.locals?.principal?.type === "admin"
isAdminRequest(locals) ==
  locals.principal # Null /\ locals.principal.type = "admin"

\* scopeWorkspaceQuery keeping a user id the input already carries
scopeWorkspaceQuery_keepingUserId(locals, prismaQuery) ==
  IF isAdminRequest(locals) THEN prismaQuery
  ELSE IF locals.user = Null THEN Null
  ELSE
    LET where == IF prismaQuery.where # Null THEN prismaQuery.where ELSE EmptyWhere
        workspaceUsersClause ==
          IF where.workspace_users # Null THEN where.workspace_users ELSE EmptyWU
        someClause ==
          IF workspaceUsersClause.some # Null THEN workspaceUsersClause.some
          ELSE EmptySome
    IN [prismaQuery EXCEPT !.where =
          [where EXCEPT !.workspace_users =
             [workspaceUsersClause EXCEPT !.some =
                [someClause EXCEPT !.user_id =
                   IF @ = NoNum THEN locals.user.id ELSE @]]]]

\* scopeWorkspaceQuery without the check for a local user
scopeWorkspaceQuery_withoutUserCheck(locals, prismaQuery) ==
  IF isAdminRequest(locals) THEN prismaQuery
  ELSE IF locals.user = Null THEN prismaQuery
  ELSE
    LET where == IF prismaQuery.where # Null THEN prismaQuery.where ELSE EmptyWhere
        workspaceUsersClause ==
          IF where.workspace_users # Null THEN where.workspace_users ELSE EmptyWU
        someClause ==
          IF workspaceUsersClause.some # Null THEN workspaceUsersClause.some
          ELSE EmptySome
    IN [prismaQuery EXCEPT !.where =
          [where EXCEPT !.workspace_users =
             [workspaceUsersClause EXCEPT !.some =
                [someClause EXCEPT !.user_id = locals.user.id]]]]

scopeWorkspaceQuery(locals, prismaQuery) ==
  IF isAdminRequest(locals) THEN prismaQuery
  ELSE IF locals.user = Null THEN Null
  ELSE
    LET where == IF prismaQuery.where # Null THEN prismaQuery.where ELSE EmptyWhere
        workspaceUsersClause ==
          IF where.workspace_users # Null THEN where.workspace_users ELSE EmptyWU
        someClause ==
          IF workspaceUsersClause.some # Null THEN workspaceUsersClause.some
          ELSE EmptySome
    IN [prismaQuery EXCEPT !.where =
          [where EXCEPT !.workspace_users =
             [workspaceUsersClause EXCEPT !.some =
                [someClause EXCEPT !.user_id = locals.user.id]]]]

\* The workspaces table with its workspace_users rows, and the rows a
\* where clause selects: the slug must match when given, some member must
\* satisfy the some clause and no member the none clause.
Member(user_id, role) == [user_id |-> user_id, role |-> role]

Workspaces ==
  { [id |-> 1, slug |-> "ws",    members |-> {Member(2, "default")}],
    [id |-> 2, slug |-> "ws",    members |-> {Member(1, "manager")}],
    [id |-> 3, slug |-> "other", members |-> {Member(1, "manager"),
                                              Member(2, "default")}],
    [id |-> 4, slug |-> "empty", members |-> {}] }

MemberMatches(m, clause) ==
  /\ clause.user_id # NoNum => m.user_id = clause.user_id
  /\ clause.role # None => m.role = clause.role

WorkspaceMatches(w, where) ==
  \/ where = Null
  \/ /\ where.slug # None => w.slug = where.slug
     /\ where.workspace_users # Null =>
          /\ where.workspace_users.some # Null =>
               \E m \in w.members :
                 MemberMatches(m, where.workspace_users.some)
          /\ where.workspace_users.none # Null =>
               ~\E m \in w.members :
                  MemberMatches(m, where.workspace_users.none)

\* Workspace._findMany(query): the ids of the rows selected
Workspace_findMany(query) ==
  {w.id : w \in {v \in Workspaces : WorkspaceMatches(v, query.where)}}

\* Workspace._findFirst(query): the first row selected, or null
Workspace_findFirst(query) ==
  IF Workspace_findMany(query) = {} THEN Null
  ELSE CHOOSE w \in Workspaces :
         /\ w.id \in Workspace_findMany(query)
         /\ \A i \in Workspace_findMany(query) : w.id <= i

\* getWorkspaceForRequest(response, clause, options): the query it sends,
\* Null when it sends none.
getWorkspaceForRequest_query(locals, clause, options) ==
  LET scopedQuery ==
        scopeWorkspaceQuery(locals,
          [where |-> clause, select |-> options.select,
           include |-> options.include])
  IN IF scopedQuery = Null THEN Null
     ELSE IF scopedQuery.include = None
          THEN [scopedQuery EXCEPT !.include = "documents"]
     ELSE scopedQuery

\* getAccessibleWorkspaceIds(response): the query it sends, Null when it
\* sends none.
getAccessibleWorkspaceIds_query(locals) ==
  scopeWorkspaceQuery(locals,
    [where |-> EmptyWhere, select |-> "id", include |-> None])

\* ------------------------------------------------------------------------
\* Admin-only middlewares
\* ------------------------------------------------------------------------
adminOnlyAuth(auth, keys) ==
  IF ~startsWithBearer(auth) THEN Reject(401, "No authorization token found.")
  ELSE LET token == splitToken(auth) IN
    IF token = Null THEN Reject(401, "No authorization token found.")
    ELSE LET apiKey == ApiKey_get(keys, token) IN
      IF apiKey = Null
      THEN Reject(401, "Invalid API key. Admin endpoints require a valid API key.")
      ELSE Accept(ApiKeyPrincipal(apiKey), Null, Null)

\* validApiKey delegates to adminOnlyAuth
validApiKey(auth, keys) == adminOnlyAuth(auth, keys)

\* The single-user branch shared by requireAdmin and requireAdminJWT once
\* the token is verified: the p property must be present, well formed and
\* decrypt to AUTH_TOKEN.
singleUserCheck(decoded) ==
  IF decoded = Null \/ decoded.p = None THEN Reject(401, "Invalid or expired token")
  ELSE IF decoded.p \notin {"good", "wrong"} THEN Reject(401, "Invalid or expired token")
  ELSE IF decoded.p # "good" THEN Reject(401, "Invalid or expired token")
  ELSE Accept(Null, Null, ReqUser(NoNum, None, "admin"))

requireAdmin(auth, cfg, keys, us, t) ==
  IF ~startsWithBearer(auth) THEN Reject(401, "Invalid or expired token")
  ELSE LET token == splitToken(auth) IN
    IF token = Null THEN Reject(401, "Invalid or expired token")
    ELSE IF cfg.multiUserMode THEN
      LET apiKey == ApiKey_get(keys, token) IN
      IF apiKey = Null THEN Reject(401, "Invalid or expired token")
      ELSE IF apiKey.createdBy = NoNum
      THEN Reject(401, "Invalid API key - no associated user")
      ELSE LET user == UserById(us, apiKey.createdBy) IN
        IF user = Null THEN Reject(401, "Invalid API key - user not found")
        ELSE IF user.role # "admin"
        THEN Reject(403, "Forbidden - admin access required")
        ELSE IF user.suspended
        THEN Reject(403, "Forbidden - user account suspended")
        ELSE Accept(Null, Null, ReqUser(user.id, user.username, user.role))
    ELSE IF passthrough(cfg) THEN Accept(Null, Null, ReqUser(NoNum, None, "admin"))
    ELSE LET decoded == JWT_verify(token, cfg.jwtSecret, t) IN
      IF decoded = Null THEN Reject(401, "Invalid or expired token")
      ELSE singleUserCheck(decoded)

\* requireAdminJWT reading the payload without verifying the signature
requireAdminJWT_decodeOnly(auth, cfg, t) ==
  IF ~startsWithBearer(auth) THEN Reject(401, "Invalid or expired token")
  ELSE LET token == splitToken(auth) IN
    IF token = Null THEN Reject(401, "Invalid or expired token")
    ELSE IF ~cfg.jwtSecret THEN Reject(500, "JWT_SECRET not configured")
    ELSE LET decoded == JWT_decode(token) IN
      IF decoded = Null THEN Reject(401, "Invalid or expired token")
      ELSE IF cfg.multiUserMode THEN
        IF decoded.id = NoNum \/ decoded.username = None
        THEN Reject(401, "Invalid or expired token")
        ELSE IF decoded.role = None \/ decoded.role # "admin"
        THEN Reject(403, "Forbidden")
        ELSE Accept(Null, Null, ReqUser(decoded.id, decoded.username, decoded.role))
      ELSE IF passthrough(cfg) THEN Accept(Null, Null, ReqUser(NoNum, None, "admin"))
      ELSE singleUserCheck(decoded)

requireAdminJWT(auth, cfg, t) ==
  IF ~startsWithBearer(auth) THEN Reject(401, "Invalid or expired token")
  ELSE LET token == splitToken(auth) IN
    IF token = Null THEN Reject(401, "Invalid or expired token")
    ELSE IF ~cfg.jwtSecret THEN Reject(500, "JWT_SECRET not configured")
    ELSE LET decoded == JWT_verify(token, cfg.jwtSecret, t) IN
      IF decoded = Null THEN Reject(401, "Invalid or expired token")
      ELSE IF cfg.multiUserMode THEN
        IF decoded.id = NoNum \/ decoded.username = None
        THEN Reject(401, "Invalid or expired token")
        ELSE IF decoded.role = None \/ decoded.role # "admin"
        THEN Reject(403, "Forbidden")
        ELSE Accept(Null, Null, ReqUser(decoded.id, decoded.username, decoded.role))
      ELSE IF passthrough(cfg) THEN Accept(Null, Null, ReqUser(NoNum, None, "admin"))
      ELSE singleUserCheck(decoded)


\* ------------------------------------------------------------------------
\* The identity provider's introspection endpoint
\* ------------------------------------------------------------------------
\* A role claim is a string, an object { id, name } or absent.  name is
\* None when the object has no name property.
RoleString(s) == [form |-> "string", name |-> s]
RoleObject(n) == [form |-> "object", name |-> n]
NoRole        == [form |-> "absent", name |-> None]

\* The roles the provider may report for a subject: the holder of s1 is
\* promoted at some point, s2 is an admin of the provider.
IdpRoles(sub) ==
  CASE sub = "s1" -> {RoleString("user"), RoleString("admin")}
    [] sub = "s2" -> {RoleObject("admin")}
    [] OTHER      -> {RoleObject("user")}

\* The email the provider reports for a subject; None when it reports none.
IdpEmail(sub) ==
  CASE sub = "s1" -> "alice@a.example"
    [] sub = "s2" -> "Alice@b.example"
    [] OTHER      -> None

\* A 2xx body.  forToken records the token the request carried.
Body(active, token, cfg, role) ==
  [active |-> active, sub |-> token.sub, role |-> role,
   email |-> IdpEmail(token.sub),
   iss |-> cfg.idpIss, aud |-> cfg.idpAud, exp |-> token.exp,
   forToken |-> token]

InactiveBody(token) ==
  [active |-> FALSE, sub |-> None, role |-> NoRole, email |-> None,
   iss |-> None, aud |-> None, exp |-> NoNum, forToken |-> token]

\* How a fetch of the introspection endpoint settles: it throws (network
\* error, abort), or a response with a non-2xx or a 2xx status comes in.
ResponseKinds == {"throw", "status", "ok"}

\* What one call can come back with: a failure (a thrown fetch, or a body
\* that breaks off or does not parse), a non-2xx status, or a 2xx body.
\* Only a token the provider signed can be reported active; the provider's
\* clock is its own, so it may still report a token active whose exp has
\* passed here.
IdpResponses(token, cfg) ==
  { [kind |-> "throw", body |-> Null], [kind |-> "status", body |-> Null],
    [kind |-> "ok", body |-> InactiveBody(token)] }
  \cup (IF token.kind = "jwt" /\ token.sig = "IDP"
        THEN {[kind |-> "ok", body |-> Body(TRUE, token, cfg, role)] :
                role \in IdpRoles(token.sub)}
        ELSE {})

\* ------------------------------------------------------------------------
\* keystoneIntrospection.js: the in-memory cache and introspectKeystoneToken
\* ------------------------------------------------------------------------
\* The Map as a set of entries [key, data, expiresAt], one per key.
MapGet(cache, key) ==
  IF \E e \in cache : e.key = key THEN CHOOSE e \in cache : e.key = key ELSE Null

MapSet(cache, key, data, expiresAt) ==
  {e \in cache : e.key # key}
    \cup {[key |-> key, data |-> data, expiresAt |-> expiresAt]}

\* `keystone_introspect_${token.substring(0, 20)}`
memCacheKey(token) == <<"keystone_introspect_", substring20(token)>>

\* Variant: a lookup that returns an entry whether or not it has expired.
introspectCached_ignoringExpiry(cache, token, t) ==
  LET cached == MapGet(cache, memCacheKey(token)) IN
  IF cached # Null THEN cached.data ELSE Null

\* Lines 19-27: the cached data when a live entry exists, else Null.
introspectCached(cache, token, t) ==
  LET cached == MapGet(cache, memCacheKey(token)) IN
  IF cached # Null /\ cached.expiresAt > DateNow(t) THEN cached.data ELSE Null

\* Lines 29-54: the environment checks made before the call.
introspectConfigured(cfg) ==
  /\ normalizeFlag(cfg.enabledRaw) = "true"
  /\ cfg.mode = "introspect"
  /\ cfg.apiUrl

\* Variant: validation that lets an inactive result through.
memValidate_noActiveCheck(cfg, resp, t) ==
  IF resp.kind # "ok" THEN Null ELSE resp.body

\* Lines 104-147: the result when the response passes every check.
memValidate(cfg, resp, t) ==
  IF resp.kind # "ok" THEN Null
  ELSE LET r == resp.body IN
    IF ~r.active THEN Null
    ELSE IF r.exp # NoNum /\ r.exp * 1000 < DateNow(t) THEN Null
    ELSE IF cfg.issuer # None /\ r.iss # None /\ r.iss # cfg.issuer THEN Null
    ELSE IF cfg.audience # None /\ r.aud # None /\ r.aud # cfg.audience THEN Null
    ELSE r

\* Lines 149-153: introspectionCache.set(cacheKey, { data, expiresAt })
memStore(cache, token, r, t) ==
  MapSet(cache, memCacheKey(token), r, DateNow(t) + MemoryTTLms)

\* Variant: a callback that clears the Map.
memCleanup_everyEntry(cache, t) == {}

\* The setInterval callback: drop every entry whose expiresAt has passed.
memCleanup(cache, t) == {e \in cache : ~(e.expiresAt < DateNow(t))}

\* buildDefaultUserPrincipal(introspectionResult)
buildDefaultUserPrincipal(r) ==
  IF r = Null \/ ~r.active THEN Null
  ELSE Principal(None, r.sub, NoNum,
                 IF r.role.form = "absent" \/ r.role = RoleString("")
                 THEN RoleString("default") ELSE r.role,
                 None, r.sub, "keystone", Null)

\* ------------------------------------------------------------------------
\* User.findOrCreateExternalUser (models/user.js)
\* ------------------------------------------------------------------------
NextUserId(us) ==
  LET ids == {u.id : u \in us} IN
  1 + (CHOOSE m \in ids : \A i \in ids : i <= m)

ValidRoles == {"admin", "manager", "default"}

\* The username "<provider>:<sub>".
ExternalUsername(externalProvider, externalId) ==
  CASE externalId = "s1" -> "keystone:s1"
    [] externalId = "s2" -> "keystone:s2"
    [] externalId = "s3" -> "keystone:s3"
    [] externalId = "s4" -> "keystone:s4"
    [] OTHER -> "keystone:other"

\* The record for (externalId, externalProvider) if there is one; otherwise a
\* new user named "<provider>:<sub>" whose role is the token's role when
\* that is a valid role and default otherwise.  Returns the user and the
\* users table.
findOrCreateExternalUser(us, externalId, externalProvider, role) ==
  LET found == UserByExternal(us, externalId, externalProvider) IN
  IF found # Null THEN [user |-> found, users |-> us]
  ELSE LET created ==
         User(NextUserId(us), ExternalUsername(externalProvider, externalId),
              IF role.form = "string" /\ role.name \in ValidRoles
              THEN role.name ELSE "default",
              FALSE, externalId, externalProvider)
       IN [user |-> created, users |-> us \cup {created}]


\* ------------------------------------------------------------------------
\* Shared-route middlewares that introspect through keystoneIntrospection.js
\* ------------------------------------------------------------------------
\* A middleware either settles the request before its next await, or goes
\* on to introspect, or awaits a lookup in the users table.
Settled(out) == [done |-> TRUE, out |-> out, await |-> None]
MustIntrospect == [done |-> FALSE, out |-> Null, await |-> "introspection"]
MustGetUser == [done |-> FALSE, out |-> Null, await |-> "user"]

ExternalAuthDisabled ==
  Reject(401, "External authentication is not enabled. Check EXTERNAL_AUTH_ENABLED in .env file.")

\* The end of the admin branch of the role-based unifiedAuth
\* (part_004:276-293), user being what the lookups gave.  Principal.sub is
\* adminJWT.sub and Principal.id is adminJWT.id: the source stores
\* adminJWT.sub || adminJWT.id in one field.
adminOutcome(adminJWT, user) ==
  IF user # Null /\ user.suspended
  THEN Reject(401, "User is suspended from system")
  ELSE Accept(Principal("admin", adminJWT.sub, adminJWT.id,
                        RoleString(adminJWT.role),
                        adminJWT.username, None, None, Null),
              user, Null)

\* The admin branch of the role-based unifiedAuth up to its first await
\* (part_004:252-268): the token is checked against the clock here; a
\* token without id is accepted with user null, one with an id awaits
\* User.get.
adminBranch(auth, t) ==
  LET adminJWT == verifyAdminJWTFromRequest(auth, t) IN
  IF adminJWT = Null THEN Settled(Reject(401, "Invalid or expired admin JWT."))
  ELSE IF adminJWT.id = NoNum THEN Settled(adminOutcome(adminJWT, Null))
  ELSE MustGetUser

\* The role-based unifiedAuth up to its first await after the token is
\* decoded: a lookup of the admin branch or the introspection client.
unifiedAuth(auth, cfg, t) ==
  IF ~startsWithBearer(auth) THEN Settled(Reject(401, "No authorization token found."))
  ELSE LET token == splitToken(auth) IN
    IF token = Null THEN Settled(Reject(401, "No authorization token found."))
    ELSE LET decodedToken == JWT_decode(token) IN
      IF decodedToken = Null THEN Settled(Reject(401, "Invalid token format."))
      ELSE IF decodedToken.role = "admin" THEN adminBranch(auth, t)
      ELSE IF normalizeFlag(cfg.enabledRaw) # "true" THEN Settled(ExternalAuthDisabled)
      ELSE MustIntrospect

\* The API-key-first unifiedAuth (part_004:16-140) up to its call of the
\* introspection client.
unifiedAuthApiKeyFirst(auth, cfg, keys) ==
  IF ~startsWithBearer(auth) THEN Settled(Reject(401, "No authorization token found."))
  ELSE LET token == splitToken(auth) IN
    IF token = Null THEN Settled(Reject(401, "No authorization token found."))
    ELSE LET apiKey == ApiKey_get(keys, token) IN
      IF apiKey # Null THEN Settled(Accept(ApiKeyPrincipal(apiKey), Null, Null))
      ELSE IF normalizeFlag(cfg.enabledRaw) # "true" THEN Settled(ExternalAuthDisabled)
      ELSE MustIntrospect

\* validateMultiUserRequest of the API-key-first validatedRequest
\* (part_005:71-174) up to its call of the introspection client.
validateMultiUserRequestApiKeyFirst(auth, cfg, keys) ==
  IF ~startsWithBearer(auth) THEN Settled(Reject(401, "No auth token found."))
  ELSE LET token == splitToken(auth) IN
    IF token = Null THEN Settled(Reject(401, "No auth token found."))
    ELSE LET apiKey == ApiKey_get(keys, token) IN
      IF apiKey # Null THEN Settled(Accept(ApiKeyPrincipal(apiKey), Null, Null))
      ELSE IF normalizeFlag(cfg.enabledRaw) # "true" THEN Settled(ExternalAuthDisabled)
      ELSE MustIntrospect

\* validatedRequest of part_005:7-69.
validatedRequestApiKeyFirst(auth, cfg, keys, t) ==
  IF cfg.multiUserMode THEN validateMultiUserRequestApiKeyFirst(auth, cfg, keys)
  ELSE IF passthrough(cfg) THEN Settled(Accept(Null, Null, Null))
  ELSE LET token == splitToken(auth) IN
    IF token = Null THEN Settled(Reject(401, "No auth token found."))
    ELSE LET decoded == decodeJWT(token, cfg.jwtSecret, t) IN
      IF decoded.p = None \/ decoded.p = "malformed"
      THEN Settled(Reject(401, "Token expired or failed validation."))
      ELSE IF decoded.p # "good" THEN Settled(Reject(401, "Invalid auth credentials."))
      ELSE Settled(Accept(Null, Null, Null))

\* part_004:103 and part_004:342 look the user up only under
\* `if (userPrincipal.externalId && userPrincipal.externalProvider)`;
\* part_005:139 has no such condition.
hasLookupGuard(mw) == mw \in {"unifiedAuth", "unifiedAuthApiKeyFirst"}

\* User.get({ externalId, externalProvider }) of the three middlewares: a
\* key whose value is undefined is no condition, so without an externalId
\* the first user of the provider is returned.
User_get_external(us, externalId, externalProvider) ==
  IF externalId # None THEN UserByExternal(us, externalId, externalProvider)
  ELSE LET ofProvider == {u \in us : u.externalProvider = externalProvider}
       IN IF ofProvider = {} THEN Null
          ELSE CHOOSE u \in ofProvider : \A v \in ofProvider : u.id <= v.id

\* Variant: the handling of the resolved user without the check of
\* user.suspended.
introspectionOutcome_noSuspensionCheck(userPrincipal, user) ==
  IF user = Null THEN Reject(401, "User not found.")
  ELSE Accept([userPrincipal EXCEPT !.type = "default"], user, Null)

\* What the three middlewares do once the user is resolved (part_004:356-379,
\* part_005:154-174): reject a missing or suspended user, else attach the
\* principal and the user and call next().
introspectionOutcome(userPrincipal, user) ==
  IF user = Null THEN Reject(401, "User not found.")
  ELSE IF user.suspended THEN Reject(401, "User is suspended from system")
  ELSE Accept([userPrincipal EXCEPT !.type = "default"], user, Null)


\* ------------------------------------------------------------------------
\* cache.js: the cache_data table
\* ------------------------------------------------------------------------
\* The table is a sequence of rows [name, data, expiresAt] in insertion order.
\* crypto.createHash("sha256").update(token): injective on the whole token.
hashToken(token) == <<"sha256", token.head, token.tail>>

\* `${CACHE_PREFIX}${token}`
cacheKey(tokenHash) == <<"introspect:", tokenHash>>

\* Variant: a read that returns a row whether or not it has expired.
getCachedIntrospection_ignoringExpiry(rows, tokenHash, t) ==
  LET any == SelectSeq(rows, LAMBDA r : r.name = cacheKey(tokenHash))
  IN IF any = <<>> THEN Null ELSE Head(any).data

\* CacheData.get({ name, expiresAt: { gt: new Date() } }): the first such row.
getCachedIntrospection(rows, tokenHash, t) ==
  LET live == SelectSeq(rows, LAMBDA r :
                r.name = cacheKey(tokenHash) /\ r.expiresAt > DateNow(t))
  IN IF live = <<>> THEN Null ELSE Head(live).data

\* CacheData.delete({ name: cacheKey })
CacheData_delete(rows, tokenHash) ==
  SelectSeq(rows, LAMBDA r : r.name # cacheKey(tokenHash))

\* CacheData.new({ name, data, expiresAt })
CacheData_new(rows, tokenHash, introspection, expiresAt) ==
  Append(rows, [name |-> cacheKey(tokenHash), data |-> introspection,
                expiresAt |-> expiresAt])

\* ------------------------------------------------------------------------
\* syncExternalUser, mapExternalRoleToAnythingLLMRole, findByExternalId
\* ------------------------------------------------------------------------
\* Property names every object literal inherits from Object.prototype, and
\* what reading one of them yields: a function or an object, never a role.
InheritedKeys ==
  {"constructor", "__defineGetter__", "__defineSetter__", "hasOwnProperty",
   "__lookupGetter__", "__lookupSetter__", "isPrototypeOf",
   "propertyIsEnumerable", "toString", "valueOf", "__proto__",
   "toLocaleString"}

InheritedProperty(key) ==
  CASE key = "constructor" -> "[Function: Object]"
    [] key = "__proto__"   -> "[Object: null prototype] {}"
    [] OTHER               -> "[Function]"

\* roleMap[roleName]: the own properties admin and user, then the inherited
\* ones; None is undefined.
roleMapLookup(roleName) ==
  CASE roleName = "admin" -> "admin"
    [] roleName = "user"  -> "default"
    [] roleName \in InheritedKeys -> InheritedProperty(roleName)
    [] OTHER -> None

\* roleName = externalRole?.name || externalRole, used as a property key:
\* an object without a usable name becomes "[object Object]", an absent
\* role "undefined".
mapExternalRoleToAnythingLLMRole(externalRole) ==
  LET roleName ==
        CASE externalRole.form = "object" /\ externalRole.name \notin {None, ""}
               -> externalRole.name
          [] externalRole.form = "object" -> "[object Object]"
          [] externalRole.form = "string" -> externalRole.name
          [] OTHER -> "undefined"
      found == roleMapLookup(roleName)
  IN IF found # None THEN found ELSE "default"

findByExternalId(us, externalId) == UserByExternal(us, externalId, "keystone-core-api")

\* email.split("@")[0].toLowerCase().replace(/[^a-z0-9_\-.]/g, "")
emailUsername(email) ==
  CASE email = "alice@a.example" -> "alice"
    [] email = "Alice@b.example" -> "alice"
    [] OTHER -> "other"

\* The username derived for an external user: from the email when there is
\* one, else `user_${externalId}`.
SyncUsername(email, externalId) ==
  IF email # None THEN emailUsername(email)
  ELSE CASE externalId = "s1" -> "user_s1"
         [] externalId = "s2" -> "user_s2"
         [] externalId = "s3" -> "user_s3"
         [] externalId = "s4" -> "user_s4"
         [] OTHER -> "user_other"

\* The unique index users_externalId_externalProvider_key: no row other
\* than the one updated holds the pair.
ExternalIdFree(us, id, externalId) ==
  \A u \in us :
    (u.externalId = externalId /\ u.externalProvider = "keystone-core-api")
      => u.id = id

\* prisma.users.update({ where: { id }, data: { externalId,
\* externalProvider, role } })
linkUser(us, id, externalId, role) ==
  {IF u.id = id
   THEN [u EXCEPT !.externalId = externalId,
                  !.externalProvider = "keystone-core-api", !.role = role]
   ELSE u : u \in us}

\* User.update(id, { role })
updateRole(us, id, role) ==
  {IF u.id = id THEN [u EXCEPT !.role = role] ELSE u : u \in us}

\* prisma.users.update({ where: { id }, data: { externalId,
\* externalProvider } })
setExternalId(us, id, externalId) ==
  {IF u.id = id
   THEN [u EXCEPT !.externalId = externalId,
                  !.externalProvider = "keystone-core-api"]
   ELSE u : u \in us}

\* { ...user, externalId: String(externalId), externalProvider }
withExternalId(u, externalId) ==
  [u EXCEPT !.externalId = externalId, !.externalProvider = "keystone-core-api"]

\* ------------------------------------------------------------------------
\* validateExternalToken.js and validatedRequest.js
\* ------------------------------------------------------------------------
InvalidOrExpired == Reject(401, "Invalid or expired token")

\* safeDecodePayload and the structural check on its result.
validStructure(token) ==
  /\ token.kind = "jwt"
  /\ token.sub # None
  /\ token.exp # NoNum

\* validateExternalToken up to its call of validateViaIntrospection.
validateExternalToken(auth, cfg, t) ==
  IF ~ExternalAuthConfig_enabled(cfg) THEN Settled(Accept(Null, Null, Null))
  ELSE IF ~startsWithBearer(auth) \/ auth.token = EmptyTok THEN Settled(InvalidOrExpired)
  ELSE LET token == auth.token IN
    IF ~validStructure(token) THEN Settled(InvalidOrExpired)
    ELSE IF token.exp + skew < t THEN Settled(InvalidOrExpired)
    ELSE MustIntrospect

\* validatedRequest.js:55 hands the request to validateExternalUserToken,
\* a module the repository does not hold.  Its documentation describes the
\* steps of validateExternalToken (extract the bearer token, introspect,
\* validate the claims, cache, sync the user) and one more: a token the
\* provider reports with the admin role is rejected before the user sync.
validateExternalUserToken(auth, cfg, t) == validateExternalToken(auth, cfg, t)

keystoneAdminRejected(introspection) ==
  mapExternalRoleToAnythingLLMRole(introspection.role) = "admin"

AdminTokenRejected == Reject(401, "Admin tokens are not accepted")

\* validateExternalToken.js:77-96: the result is missing or inactive, or
\* its iss or aud differs from the configured one.
introspectionRejected(introspection, cfg) ==
  \/ introspection = Null
  \/ ~introspection.active
  \/ introspection.iss # cfg.issuer
  \/ introspection.aud # cfg.audience

\* validateExternalToken.js:99-106
externalUserOf(introspection) ==
  [id |-> introspection.sub, role |-> introspection.role,
   email |-> introspection.email]

\* validateMultiUserRequest of validatedRequest.js up to its await of
\* User.get (lines 119-138): the token is decoded against the clock here.
validateMultiUserRequest(auth, cfg, t) ==
  LET token == splitToken(auth) IN
  IF token = Null THEN Settled(Reject(401, "No auth token found."))
  ELSE LET valid == decodeJWT(token, cfg.jwtSecret, t) IN
    IF valid.id = NoNum THEN Settled(Reject(401, "Invalid auth token."))
    ELSE MustGetUser

\* validateMultiUserRequest once User.get has answered (lines 138-154).
multiUserOutcome(user) ==
  IF user = Null THEN Reject(401, "Invalid auth for user.")
  ELSE IF user.suspended THEN Reject(401, "User is suspended from system")
  ELSE Accept(Null, user, Null)

\* The internal-JWT test of validatedRequest.js:34-39: the token decodes,
\* against the clock, to a payload with id, username and role.
isInternalJWT(token, cfg, t) ==
  LET decoded == decodeJWT(token, cfg.jwtSecret, t) IN
  decoded.id # NoNum /\ decoded.username # None /\ decoded.role # None

\* validatedRequest.js:41-47: the user User.get gave lets the request
\* through when it is an admin that is not suspended.
internalAdminUser(user) ==
  IF user # Null /\ user.role = "admin" /\ ~user.suspended THEN user ELSE Null

\* validatedRequest of validatedRequest.js up to its first await after the
\* API key lookup: User.get or the external validation.
validatedRequest(auth, cfg, keys, t) ==
  LET token == splitToken(auth) IN
  IF ExternalAuthConfig_enabled(cfg) /\ cfg.multiUserMode
  THEN IF token # Null /\ ApiKey_get(keys, token) # Null
       THEN Settled(Reject(401, "API keys cannot be used on this endpoint. Use JWT authentication."))
       ELSE IF token # Null /\ isInternalJWT(token, cfg, t) THEN MustGetUser
       ELSE validateExternalUserToken(auth, cfg, t)
  ELSE IF cfg.multiUserMode THEN validateMultiUserRequest(auth, cfg, t)
  ELSE IF passthrough(cfg) THEN Settled(Accept(Null, Null, Null))
  ELSE IF token = Null THEN Settled(Reject(401, "No auth token found."))
  ELSE LET decoded == decodeJWT(token, cfg.jwtSecret, t) IN
    IF decoded.p = None \/ decoded.p = "malformed"
    THEN Settled(Reject(401, "Token expired or failed validation."))
    ELSE IF decoded.p # "good" THEN Settled(Reject(401, "Invalid auth credentials."))
    ELSE Settled(Accept(Null, Null, Null))


\* ------------------------------------------------------------------------
\* The state machine
\* ------------------------------------------------------------------------
VARIABLES
  mounted,             \* the middleware the route under study is mounted with
  config,              \* the deployment: environment and system settings
  now,                 \* the clock, in seconds
  users,               \* the users table
  introspectionCache,  \* the Map of keystoneIntrospection.js
  cache_data,          \* the cache_data table
  slots,               \* the requests in flight, each at one of its awaits
  clients,             \* the Authorization headers the callers hold
  syncVersion,         \* which syncExternalUser the deployment carries
  externalRole,        \* the argument of mapExternalRoleToAnythingLLMRole
  mappedRole,          \* what it returned for that argument; None before
  response,            \* response.locals of a caller of utils/workspaces/access
  prismaQuery,         \* the query that caller holds
  returned,            \* what the access function returned; Pending before
  issued,              \* the queries sent to the workspaces table
  checked,             \* configuration and introspection result under the
                       \* issuer and audience checks
  verdict,             \* which check ran and whether it rejected
  processEnv,          \* process.env when utils/auth/config.js is loaded
  loadResult,          \* what loading it gave; NotLoaded before
  eventLogs,           \* the audit trail: the number of logAuthEvent calls
                       \* whose EventLogs.logEvent is pending, and whether
                       \* one settled in the latest step by throwing;
                       \* NotFollowed where it is left aside
  last,                \* the request completed by the latest step, or Null
  resolved             \* history: <<external id, local user id>> of every
                       \* external authentication that succeeded, the
                       \* ones that made the linked rows of Init included

access == <<response, prismaQuery, returned, issued>>

checks == <<checked, verdict>>

loading == <<processEnv, loadResult>>

deployment == <<mounted, config, clients, syncVersion, externalRole,
                mappedRole, access, checks, loading>>

env == <<deployment, eventLogs>>

vars == <<env, now, users, introspectionCache, cache_data, slots, last, resolved>>

\* The middleware mounted on the route.  validateExternalToken is mounted by
\* itself where external authentication is enabled: disabled, it calls
\* next() at once and the middleware after it decides; it does not read the
\* multi-user setting.
Middlewares ==
  {"adminOnlyAuth", "requireAdmin", "requireAdminJWT", "unifiedAuth",
   "unifiedAuthApiKeyFirst", "validatedRequestApiKeyFirst", "validatedRequest",
   "validateExternalToken"}

\* The mounts whose external tokens go through validateViaIntrospection
\* and syncExternalUser.
ExternalValidators == {"validatedRequest", "validateExternalToken"}

Requests == {"r1", "r2"}

\* The repository holds two versions of syncExternalUser: one that looks
\* an account up by the derived username before creating one
\* (auditAuth.js:73-282) and one that does not (auditAuth.js:343-441).
SyncVersions == {"byUsername", "createOnly"}

\* The externalProvider value the mounted middleware files its users under.
Provider(mw) == IF mw \in ExternalValidators THEN "keystone-core-api" ELSE "keystone"

Idle == [pc |-> "idle"]

FreeSlot(sl) ==
  IF sl["r1"] = Idle THEN "r1" ELSE IF sl["r2"] = Idle THEN "r2" ELSE None

\* A completed request: what was sent, what the middleware did, how many
\* introspection calls it made, the cache data its first lookup found, the
\* kind of response its call got, the cache data its fallback lookup found,
\* the introspection result it acted on, and how syncExternalUser resolved
\* the local user (path) and whether it met a unique constraint violation.
RespKind(resp) ==
  IF resp.kind # "ok" THEN resp.kind
  ELSE IF resp.body.active THEN "active" ELSE "inactive"

NoSync == [path |-> None, conflict |-> FALSE]

Done(auth, out, calls, hit, resp, fallback, result) ==
  [auth |-> auth, out |-> out, calls |-> calls, hit |-> hit, resp |-> resp,
   fallback |-> fallback, result |-> result, sync |-> NoSync]

\* What a request in flight remembers of its introspection.
Meta(calls, hit, resp, fallback, result) ==
  [calls |-> calls, hit |-> hit, resp |-> resp, fallback |-> fallback,
   result |-> result]

DoneWith(auth, out, meta, sync) ==
  [Done(auth, out, meta.calls, meta.hit, meta.resp, meta.fallback, meta.result)
     EXCEPT !.sync = sync]

\* A request inside findByExternalId / syncExternalUser: the external user,
\* the local user it holds (existingUser, userByUsername or the created
\* user) and whether a create or update of its own hit a unique constraint.
SyncSlot(pc, auth, meta, externalUser, user, conflict) ==
  [pc |-> pc, auth |-> auth, meta |-> meta, externalUser |-> externalUser,
   user |-> user, conflict |-> conflict]

\* The callers of one behaviour hold one header; where the cache is keyed
\* by a prefix of the token they may also hold two external tokens.
Populations(mw) ==
  {{h} : h \in Headers}
    \cup (IF mw = "unifiedAuth"
          THEN {{Header("Bearer", ExtJwtA), Header("Bearer", ExtJwtB)}}
          ELSE {})

\* The two versions of syncExternalUser differ only after findByExternalId
\* found no row: both are explored for the callers whose identity has no
\* account linked under keystone-core-api yet (s2, s3 and s4).
FirstLogins == {Header("Bearer", t) : t \in {ExtJwtB, ExtJwtC, ExtJwtD}}

Started ==
  /\ mounted \in Middlewares
  /\ config \in Deployments
  /\ clients \in Populations(mounted)
  /\ Cardinality(clients) > 1 => config = MultiUserIntrospecting
  /\ mounted = "validateExternalToken" =>
       (config.multiUserMode /\ ExternalAuthConfig_enabled(config))
  \* where validateViaIntrospection runs, the issuer and the audience the
  \* provider reports are the expected ones; the other combinations of
  \* expectation and result are those of SpecChecks
  /\ (mounted \in ExternalValidators /\ config.multiUserMode
        /\ ExternalAuthConfig_enabled(config)) => config = MultiUserIntrospecting
  \* the other deployments that set EXTERNAL_AUTH_ENABLED see one external
  \* caller, a first login
  /\ (config.enabledRaw # Unset /\ config # MultiUserIntrospecting) =>
       clients \cap ExternalBearers \subseteq {Header("Bearer", ExtJwtC)}
  /\ syncVersion \in (IF mounted = "validateExternalToken"
                           /\ clients \subseteq FirstLogins
                      THEN SyncVersions ELSE {"byUsername"})
  /\ now = 0
  /\ users = InitUsers
  /\ introspectionCache = {}
  /\ cache_data = <<>>
  /\ slots = [r \in Requests |-> Idle]
  /\ last = Null
  /\ processEnv = Null
  /\ loadResult = NotLoaded
  /\ resolved = {<<u.externalId, u.id>> :
                   u \in {v \in InitUsers : v.externalProvider = Provider(mounted)}}
  /\ externalRole = NoRole
  /\ mappedRole = None
  /\ response = [principal |-> Null, user |-> Null]
  /\ prismaQuery = [where |-> Null, select |-> None, include |-> None]
  /\ returned = Pending
  /\ issued = <<>>
  /\ checked = Null
  /\ verdict = NoVerdict

\* Nothing reads what logAuthEvent writes and no caller awaits it
\* (auditAuth.js:22-42), so the audit trail is followed only where the
\* stores can fail (SpecFaults).
Init == Started /\ eventLogs = NotFollowed

\* logAuthEvent is called n times in this step and not awaited: each call
\* leaves an EventLogs.logEvent pending, which settles in a later step.
logAuthEvent(n) ==
  IF eventLogs = NotFollowed THEN UNCHANGED eventLogs
  ELSE /\ eventLogs.pending + n <= MaxPendingLogs
       /\ eventLogs' = [pending |-> eventLogs.pending + n, failed |-> FALSE]

\* A request settled by the middleware on its own.
Settle(auth, out) ==
  /\ last' = Done(auth, out, 0, Null, None, Null, Null)
  /\ UNCHANGED <<env, now, users, introspectionCache, cache_data, slots, resolved>>

AdminOnlyAuth(auth) ==
  /\ mounted = "adminOnlyAuth"
  /\ Settle(auth, validApiKey(auth, ApiKeys))

RequireAdmin(auth) ==
  /\ mounted = "requireAdmin"
  /\ Settle(auth, requireAdmin(auth, config, ApiKeys, users, now))

RequireAdminJWT(auth) ==
  /\ mounted = "requireAdminJWT"
  /\ Settle(auth, requireAdminJWT(auth, config, now))

\* The history after a request that acted on result r ended with out.
Resolve(res, r, out) ==
  IF r # Null /\ out.nexts = 1 /\ out.user # Null
  THEN res \cup {<<r.sub, out.user.id>>} ELSE res

\* A request of one of the three middlewares between its awaits of
\* User.get and User.findOrCreateExternalUser.
MemSlot(pc, auth, meta, userPrincipal) ==
  [pc |-> pc, auth |-> auth, meta |-> meta, userPrincipal |-> userPrincipal]

\* A request that acted on no introspection.
NoMeta == Meta(0, Null, None, Null, Null)

\* The request in slot goes on to an await, where it waits as `waiting`.
Wait(slot, waiting) ==
  /\ slot # None
  /\ slots' = [slots EXCEPT ![slot] = waiting]
  /\ last' = Null
  /\ UNCHANGED resolved

\* The middleware answers; slot is None for a request that never waited.
MemFinish(slot, auth, out, meta) ==
  /\ last' = DoneWith(auth, out, meta, NoSync)
  /\ resolved' = Resolve(resolved, meta.result, out)
  /\ slots' = IF slot = None THEN slots ELSE [slots EXCEPT ![slot] = Idle]

\* introspectKeystoneTokenFromRequest has returned r (part_004:318-346,
\* part_004:79-107, part_005:121-142): a missing or inactive result is
\* rejected; without an externalId the guarded variants skip the lookup
\* and call next() with user null; else the request awaits User.get.
MemResult(slot, auth, r, meta) ==
  LET userPrincipal == buildDefaultUserPrincipal(r) IN
  IF userPrincipal = Null
  THEN MemFinish(slot, auth, Reject(401, "Invalid or expired token."), meta)
  ELSE IF hasLookupGuard(mounted) /\ userPrincipal.externalId = None
  THEN MemFinish(slot, auth,
                 Accept([userPrincipal EXCEPT !.type = "default"], Null, Null), meta)
  ELSE Wait(slot, MemSlot("userget", auth, meta, userPrincipal))

\* introspectKeystoneTokenFromRequest up to the fetch, and the middleware's
\* handling of the result when the cache or the environment settles it.
IntrospectBegin(auth) ==
  LET token  == splitToken(auth)
      cached == introspectCached(introspectionCache, token, now)
  IN IF cached # Null \/ ~introspectConfigured(config)
     THEN /\ MemResult(FreeSlot(slots), auth, cached,
                       Meta(0, cached, None, Null, cached))
          /\ UNCHANGED <<env, now, users, introspectionCache, cache_data>>
     ELSE /\ Wait(FreeSlot(slots), [pc |-> "fetch", auth |-> auth])
          /\ UNCHANGED <<env, now, users, introspectionCache, cache_data>>

MemRequest(auth, pre) ==
  IF pre.done THEN Settle(auth, pre.out) ELSE IntrospectBegin(auth)

\* The role-based unifiedAuth from its start: an admin token that passed
\* verifyAdminJWTFromRequest and carries an id awaits User.get({ id }).
UnifiedAuth(auth) ==
  /\ mounted = "unifiedAuth"
  /\ LET pre == unifiedAuth(auth, config, now) IN
     IF pre.await = "user"
     THEN /\ Wait(FreeSlot(slots),
                  [pc |-> "adminget", auth |-> auth,
                   adminJWT |-> verifyAdminJWTFromRequest(auth, now)])
          /\ UNCHANGED <<env, now, users, introspectionCache, cache_data>>
     ELSE MemRequest(auth, pre)

\* User.get({ id }) of the admin branch answers (part_004:268-270): without
\* a row, a token with a username awaits User.get({ username }); else the
\* branch ends.
AdminUserGet(r) ==
  /\ slots[r].pc = "adminget"
  /\ LET sl   == slots[r]
         user == UserById(users, sl.adminJWT.id)
     IN IF user = Null /\ sl.adminJWT.username # None
        THEN Wait(r, [sl EXCEPT !.pc = "adminbyname"])
        ELSE MemFinish(r, sl.auth, adminOutcome(sl.adminJWT, user), NoMeta)
  /\ UNCHANGED <<env, now, users, introspectionCache, cache_data>>

\* User.get({ username }) of the admin branch answers (part_004:272), then
\* the rest of the branch.
AdminUserGetByName(r) ==
  /\ slots[r].pc = "adminbyname"
  /\ LET sl   == slots[r]
         user == UserByUsername(users, sl.adminJWT.username)
     IN MemFinish(r, sl.auth, adminOutcome(sl.adminJWT, user), NoMeta)
  /\ UNCHANGED <<env, now, users, introspectionCache, cache_data>>

UnifiedAuthApiKeyFirst(auth) ==
  /\ mounted = "unifiedAuthApiKeyFirst"
  /\ MemRequest(auth, unifiedAuthApiKeyFirst(auth, config, ApiKeys))

ValidatedRequestApiKeyFirst(auth) ==
  /\ mounted = "validatedRequestApiKeyFirst"
  /\ MemRequest(auth, validatedRequestApiKeyFirst(auth, config, ApiKeys, now))

\* The fetch of introspectKeystoneToken settles (lines 92-102).  It throws
\* and the catch returns null, or the status line and headers are in: the
\* timer is cleared and the body is awaited, response.text() after a
\* non-2xx status and response.json() after a 2xx one.
FetchReturn(r, kind) ==
  /\ slots[r].pc = "fetch"
  /\ kind \in ResponseKinds
  /\ IF kind = "throw"
     THEN MemResult(r, slots[r].auth, Null, Meta(1, Null, "throw", Null, Null))
     ELSE Wait(r, [pc |-> "body", auth |-> slots[r].auth, kind |-> kind])
  /\ UNCHANGED <<env, now, users, introspectionCache, cache_data>>

\* The body is in (lines 104-162): after a non-2xx status null is returned;
\* a 2xx body is validated against the clock and the configuration and a
\* result that passes is stored in the Map; a body that does not parse
\* throws and the catch returns null.  Then the middleware up to its await
\* of User.get.
FetchBody(r, resp) ==
  /\ slots[r].pc = "body"
  /\ LET auth   == slots[r].auth
         token  == splitToken(auth)
         result == memValidate(config, resp, now)
     IN /\ resp \in IdpResponses(token, config)
        /\ resp.kind = slots[r].kind \/ (slots[r].kind = "ok" /\ resp.kind = "throw")
        /\ introspectionCache' =
             IF result # Null THEN memStore(introspectionCache, token, result, now)
             ELSE introspectionCache
        /\ MemResult(r, auth, result, Meta(1, Null, RespKind(resp), Null, result))
        /\ UNCHANGED <<env, now, users, cache_data>>

\* User.get({ externalId, externalProvider }) answers (part_004:343-346,
\* part_004:104-107, part_005:139-142): a user found is checked for
\* suspension and the request ends; else findOrCreateExternalUser is next.
UserGet(r) ==
  /\ slots[r].pc = "userget"
  /\ LET sl   == slots[r]
         user == User_get_external(users, sl.userPrincipal.externalId,
                                   sl.userPrincipal.externalProvider)
     IN IF user # Null
        THEN MemFinish(r, sl.auth, introspectionOutcome(sl.userPrincipal, user), sl.meta)
        ELSE Wait(r, MemSlot("provision", sl.auth, sl.meta, sl.userPrincipal))
  /\ UNCHANGED <<env, now, users, introspectionCache, cache_data>>

\* User.findOrCreateExternalUser answers (part_004:349-354,
\* part_004:110-115, part_005:146-151), then the rest of the middleware.
FindOrCreateUser(r) ==
  /\ slots[r].pc = "provision"
  /\ LET sl    == slots[r]
         found == findOrCreateExternalUser(users, sl.userPrincipal.externalId,
                    sl.userPrincipal.externalProvider, sl.userPrincipal.role)
     IN /\ users' = found.users
        /\ MemFinish(r, sl.auth, introspectionOutcome(sl.userPrincipal, found.user), sl.meta)
  /\ UNCHANGED <<env, now, introspectionCache, cache_data>>

\* The timer armed before the fetch (lines 81-82) fires after 5 seconds
\* while the fetch is pending: controller.abort() makes the fetch throw.
\* Line 102 clears the timer once the fetch has settled.
FetchAbort(r) == FetchReturn(r, "throw")

\* The setInterval callback of keystoneIntrospection.js.
Cleanup ==
  /\ introspectionCache' = memCleanup(introspectionCache, now)
  /\ last' = Null
  /\ UNCHANGED <<env, now, users, cache_data, slots, resolved>>

Tick ==
  /\ now < MaxTicks * TickStep
  /\ now' = now + TickStep
  /\ last' = Null
  /\ logAuthEvent(0)
  /\ UNCHANGED <<deployment, users, introspectionCache, cache_data, slots,
                 resolved>>

\* validateExternalToken.js:77-109: a rejected introspection result ends the
\* request with 401, after a call of logAuthEvent (lines 79, 91 and 140);
\* otherwise the request goes on to findByExternalId.
AfterIntrospection(r, auth, introspection, meta) ==
  IF introspectionRejected(introspection, config)
  THEN /\ last' = DoneWith(auth, InvalidOrExpired, meta, NoSync)
       /\ slots' = [slots EXCEPT ![r] = Idle]
       /\ logAuthEvent(1)
  ELSE IF mounted = "validatedRequest" /\ keystoneAdminRejected(introspection)
  THEN /\ last' = DoneWith(auth, AdminTokenRejected, meta, NoSync)
       /\ slots' = [slots EXCEPT ![r] = Idle]
       /\ logAuthEvent(1)
  ELSE /\ last' = Null
       /\ slots' = [slots EXCEPT ![r] =
            SyncSlot("find", auth, meta, externalUserOf(introspection), Null, FALSE)]
       /\ logAuthEvent(0)

\* validateViaIntrospection starts (validateExternalToken.js:152-154):
\* getCachedIntrospection builds its query, new Date() included
\* (cache.js:17-24), and awaits CacheData.get.
ExternalBegin(slot, auth) ==
  /\ Wait(slot, [pc |-> "cacheget", auth |-> auth, at |-> now])
  /\ logAuthEvent(0)
  /\ UNCHANGED <<deployment, now, users, introspectionCache, cache_data>>

\* The request waits for User.get({ id }) at pc (validatedRequest.js:41
\* and 138), holding the id of the payload it decoded.
LocalUserBegin(pc, auth) ==
  /\ Wait(FreeSlot(slots), [pc |-> pc, auth |-> auth, id |-> splitToken(auth).id])
  /\ UNCHANGED <<env, now, users, introspectionCache, cache_data>>

ValidatedRequest(auth) ==
  /\ mounted = "validatedRequest"
  /\ LET pre == validatedRequest(auth, config, ApiKeys, now) IN
     IF pre.done THEN Settle(auth, pre.out)
     ELSE IF pre.await = "user"
     THEN LocalUserBegin(IF ExternalAuthConfig_enabled(config) /\ config.multiUserMode
                         THEN "adminuser" ELSE "multiuser", auth)
     ELSE ExternalBegin(FreeSlot(slots), auth)

\* User.get({ id }) of validatedRequest.js:41 answers: the request of an
\* admin that is not suspended goes through; any other is handed to
\* validateExternalUserToken, which starts with the clock as it is now.
InternalAdminGet(r) ==
  /\ slots[r].pc = "adminuser"
  /\ LET auth == slots[r].auth
         user == internalAdminUser(UserById(users, slots[r].id))
         pre  == validateExternalUserToken(auth, config, now)
     IN IF user # Null \/ pre.done
        THEN /\ MemFinish(r, auth,
                          IF user # Null THEN Accept(Null, user, Null) ELSE pre.out,
                          NoMeta)
             /\ UNCHANGED <<env, now, users, introspectionCache, cache_data>>
        ELSE ExternalBegin(r, auth)

\* User.get({ id }) of validateMultiUserRequest answers
\* (validatedRequest.js:138-154).
MultiUserGet(r) ==
  /\ slots[r].pc = "multiuser"
  /\ MemFinish(r, slots[r].auth, multiUserOutcome(UserById(users, slots[r].id)),
               NoMeta)
  /\ UNCHANGED <<env, now, users, introspectionCache, cache_data>>

\* validateExternalToken mounted on a route by itself.  Each rejection
\* before the introspection comes after a call of logAuthEvent
\* (validateExternalToken.js:31, 45 and 57); with external authentication
\* disabled next() is called and nothing is logged (line 22).
ValidateExternalToken(auth) ==
  /\ mounted = "validateExternalToken"
  /\ LET pre == validateExternalToken(auth, config, now) IN
     IF pre.done
     THEN /\ last' = Done(auth, pre.out, 0, Null, None, Null, Null)
          /\ logAuthEvent(IF ExternalAuthConfig_enabled(config) THEN 1 ELSE 0)
          /\ UNCHANGED <<deployment, now, users, introspectionCache, cache_data,
                         slots, resolved>>
     ELSE ExternalBegin(FreeSlot(slots), auth)

\* CacheData.get of the first lookup answers (cache.js:19-31), for the
\* date the query was built with: a row found settles the introspection
\* and the rest of validateExternalToken follows; without one
\* callKeystoneIntrospect starts its fetch.
CacheGet(r) ==
  /\ slots[r].pc = "cacheget"
  /\ LET auth   == slots[r].auth
         cached == getCachedIntrospection(cache_data, hashToken(auth.token),
                                          slots[r].at)
     IN IF cached # Null
        THEN /\ AfterIntrospection(r, auth, cached,
                                   Meta(0, cached, None, Null, cached))
             /\ UNCHANGED resolved
        ELSE /\ Wait(r, [pc |-> "call", auth |-> auth, missed |-> Null])
             /\ logAuthEvent(0)
  /\ UNCHANGED <<deployment, now, users, introspectionCache, cache_data>>

\* The request waits for CacheData.get of the lookup in the catch of
\* validateViaIntrospection (validateExternalToken.js:164-166), its query
\* built with the date of now; kind tells what made the try block throw.
FallbackBegin(r, kind) ==
  Wait(r, [pc |-> "fallback", auth |-> slots[r].auth, at |-> now,
           resp |-> kind, missed |-> slots[r].missed])

\* The fetch of callKeystoneIntrospect settles
\* (validateExternalToken.js:182-201).  A thrown fetch or a non-2xx status
\* throws, and the catch of validateViaIntrospection reads the cache
\* again; after a 2xx status response.json() is awaited.
CallReturn(r, kind) ==
  /\ slots[r].pc = "call"
  /\ kind \in ResponseKinds
  /\ IF kind = "ok"
     THEN Wait(r, [slots[r] EXCEPT !.pc = "calljson"])
     ELSE FallbackBegin(r, kind)
  /\ logAuthEvent(0)
  /\ UNCHANGED <<deployment, now, users, introspectionCache, cache_data>>

\* response.json() of callKeystoneIntrospect settles.  A body that does
\* not parse throws, as a failed fetch does.  An active body starts
\* setCachedIntrospection, which computes expiresAt and awaits
\* CacheData.delete (cache.js:45-51); an inactive body is handed back as
\* it is and the rest of validateExternalToken follows.
CallBody(r, resp) ==
  /\ slots[r].pc = "calljson"
  /\ LET auth == slots[r].auth IN
     /\ resp \in IdpResponses(auth.token, config)
     /\ resp.kind \in {"ok", "throw"}
     /\ IF resp.kind = "throw"
        THEN FallbackBegin(r, "throw") /\ logAuthEvent(0)
        ELSE IF resp.body.active
        THEN /\ Wait(r, [pc |-> "delete", auth |-> auth,
                         introspection |-> resp.body,
                         expiresAt |-> DateNow(now) + config.cacheTTL * 1000,
                         missed |-> slots[r].missed])
             /\ logAuthEvent(0)
        ELSE /\ AfterIntrospection(r, auth, resp.body,
                                   Meta(1, Null, "inactive", Null, resp.body))
             /\ UNCHANGED resolved
  /\ UNCHANGED <<deployment, now, users, introspectionCache, cache_data>>

\* CacheData.get of the lookup in the catch answers, for the date its
\* query was built with: a live active entry is used, else the error
\* reaches the catch of validateExternalToken.
CacheFallback(r) ==
  /\ slots[r].pc = "fallback"
  /\ LET auth     == slots[r].auth
         fallback == getCachedIntrospection(cache_data, hashToken(auth.token),
                                            slots[r].at)
         used     == IF fallback # Null /\ fallback.active THEN fallback ELSE Null
     IN AfterIntrospection(r, auth, used,
                           Meta(1, Null, slots[r].resp, fallback, used))
  /\ UNCHANGED <<deployment, now, users, introspectionCache, cache_data, resolved>>

\* CacheData.delete of setCachedIntrospection runs (cache.js:51);
\* CacheData.new is awaited next.
CacheDelete(r) ==
  /\ slots[r].pc = "delete"
  /\ cache_data' = CacheData_delete(cache_data, hashToken(slots[r].auth.token))
  /\ Wait(r, [slots[r] EXCEPT !.pc = "create"])
  /\ logAuthEvent(0)
  /\ UNCHANGED <<deployment, now, users, introspectionCache>>

\* CacheData.new of setCachedIntrospection runs (cache.js:54-59), with the
\* expiresAt computed before the delete, then the rest of
\* validateExternalToken up to findByExternalId.
CacheCreate(r) ==
  /\ slots[r].pc = "create"
  /\ LET auth == slots[r].auth
         introspection == slots[r].introspection
     IN /\ cache_data' = CacheData_new(cache_data, hashToken(auth.token),
                                       introspection, slots[r].expiresAt)
        /\ AfterIntrospection(r, auth, introspection,
                              Meta(1, Null, "active", Null, introspection))
        /\ UNCHANGED <<deployment, now, users, introspectionCache, resolved>>

\* ------------------------------------------------------------------------
\* findByExternalId and syncExternalUser, one action per database access
\* ------------------------------------------------------------------------
\* The request moves to another await of syncExternalUser.
SyncStep(r, pc, user, conflict) ==
  /\ slots' = [slots EXCEPT ![r] =
       SyncSlot(pc, slots[r].auth, slots[r].meta, slots[r].externalUser,
                user, conflict)]
  /\ last' = Null
  /\ logAuthEvent(0)
  /\ UNCHANGED resolved

\* syncExternalUser returns localUser: validateExternalToken.js:112-136.
\* It has called logAuthEvent on every path but the one that returns the
\* row found after a unique constraint violation (auditAuth.js:131, 148,
\* 217, 260, 367 and 424), and validateExternalToken calls it before it
\* answers (validateExternalToken.js:114 and 124).
SyncReturn(r, localUser, path) ==
  LET sl  == slots[r]
      out == IF localUser.suspended
             THEN Reject(401, "User is suspended from system")
             ELSE Accept(Null, localUser, Null)
  IN /\ last' = DoneWith(sl.auth, out, sl.meta,
                         [path |-> path, conflict |-> sl.conflict])
     /\ resolved' = Resolve(resolved, sl.meta.result, out)
     /\ slots' = [slots EXCEPT ![r] = Idle]
     /\ logAuthEvent(IF path = "found" THEN 1 ELSE 2)

\* syncExternalUser throws: the catch of validateExternalToken calls
\* logAuthEvent and answers 401 (validateExternalToken.js:137-146).
SyncThrow(r, conflict) ==
  /\ last' = DoneWith(slots[r].auth, InvalidOrExpired, slots[r].meta,
                      [path |-> "thrown", conflict |-> conflict])
  /\ slots' = [slots EXCEPT ![r] = Idle]
  /\ logAuthEvent(1)
  /\ UNCHANGED resolved

SyncRole(r) == mapExternalRoleToAnythingLLMRole(slots[r].externalUser.role)

SyncName(r) ==
  SyncUsername(slots[r].externalUser.email, slots[r].externalUser.id)

\* validateExternalToken.js:109: existingUser = findByExternalId(id).  A
\* user found this way has its externalId set; without one the next access
\* is the lookup by username (lines 94-109) or the create (lines 359-406).
FindByExternalId(r) ==
  /\ slots[r].pc = "find"
  /\ LET existingUser == findByExternalId(users, slots[r].externalUser.id) IN
     SyncStep(r, IF existingUser # Null THEN "setrole"
                 ELSE IF syncVersion = "byUsername" THEN "byname"
                 ELSE "createuser",
              existingUser, FALSE)
  /\ UNCHANGED <<deployment, now, users, introspectionCache, cache_data>>

\* Lines 94-109: the lookup by the derived username, then the branch on
\* existingUser and its externalId.
FindByUsername(r) ==
  /\ slots[r].pc = "byname"
  /\ LET userByUsername == UserByUsername(users, SyncName(r)) IN
     SyncStep(r, IF userByUsername = Null THEN "createuser"
                 ELSE IF userByUsername.externalId = None THEN "link"
                 ELSE "setrole",
              userByUsername, FALSE)
  /\ UNCHANGED <<deployment, now, users, introspectionCache, cache_data>>

\* Lines 115-122: the update that links the account; a unique constraint
\* violation is not caught here.
LinkExisting(r) ==
  /\ slots[r].pc = "link"
  /\ LET id == slots[r].user.id
         externalId == slots[r].externalUser.id
     IN IF ExternalIdFree(users, id, externalId)
        THEN /\ users' = linkUser(users, id, externalId, SyncRole(r))
             /\ SyncStep(r, "refresh", slots[r].user, FALSE)
        ELSE /\ SyncThrow(r, TRUE)
             /\ UNCHANGED users
  /\ UNCHANGED <<deployment, now, introspectionCache, cache_data>>

\* Lines 125-128 and 160-164: the refreshed row is returned.
RefreshLinked(r) ==
  /\ slots[r].pc = "refresh"
  /\ SyncReturn(r, withExternalId(UserById(users, slots[r].user.id),
                                  slots[r].externalUser.id), "linked")
  /\ UNCHANGED <<deployment, now, users, introspectionCache, cache_data>>

\* Lines 142-164: the role update of an account that has an externalId;
\* the account is returned as it was read, under the caller's externalId.
UpdateExisting(r) ==
  /\ slots[r].pc = "setrole"
  /\ users' = updateRole(users, slots[r].user.id, SyncRole(r))
  /\ SyncReturn(r, withExternalId(slots[r].user, slots[r].externalUser.id),
                "updated")
  /\ UNCHANGED <<deployment, now, introspectionCache, cache_data>>

\* Lines 191-199: prisma.users.create; a taken username is a unique
\* constraint violation and leads to the catch.
CreateUser(r) ==
  /\ slots[r].pc = "createuser"
  /\ IF UserByUsername(users, SyncName(r)) # Null
     THEN /\ SyncStep(r, "catchfind", Null, TRUE)
          /\ UNCHANGED users
     ELSE LET user == User(NextUserId(users), SyncName(r), SyncRole(r), FALSE,
                           None, None)
          IN /\ users' = users \cup {user}
             /\ SyncStep(r, "setexternal", user, FALSE)
  /\ UNCHANGED <<deployment, now, introspectionCache, cache_data>>

\* Lines 202-227: the update that sets externalId on the created row.
SetExternalId(r) ==
  /\ slots[r].pc = "setexternal"
  /\ LET id == slots[r].user.id
         externalId == slots[r].externalUser.id
     IN IF ExternalIdFree(users, id, externalId)
        THEN /\ users' = setExternalId(users, id, externalId)
             /\ SyncReturn(r, withExternalId(slots[r].user, externalId), "created")
        ELSE /\ SyncStep(r, "catchfind", Null, TRUE)
             /\ UNCHANGED users
  /\ UNCHANGED <<deployment, now, introspectionCache, cache_data>>

\* Lines 230-235 and 433-439: after a unique constraint violation,
\* findByExternalId; the version without username lookup throws the error
\* on when that finds nothing.
CatchFindByExternalId(r) ==
  /\ slots[r].pc = "catchfind"
  /\ LET existingByExternal == findByExternalId(users, slots[r].externalUser.id) IN
     IF existingByExternal # Null
     THEN SyncReturn(r, existingByExternal, "found")
     ELSE IF syncVersion = "byUsername"
     THEN SyncStep(r, "catchname", Null, TRUE)
     ELSE SyncThrow(r, TRUE)
  /\ UNCHANGED <<deployment, now, users, introspectionCache, cache_data>>

\* Lines 238-245 and 280: the lookup by username; without a row the error
\* is thrown on.
CatchFindByUsername(r) ==
  /\ slots[r].pc = "catchname"
  /\ LET userByUsername == UserByUsername(users, SyncName(r)) IN
     IF userByUsername # Null
     THEN SyncStep(r, "catchlink", userByUsername, TRUE)
     ELSE SyncThrow(r, TRUE)
  /\ UNCHANGED <<deployment, now, users, introspectionCache, cache_data>>

\* Lines 247-254: the update that links the row found by username; an
\* error of this update is swallowed and the first error thrown on.
CatchLink(r) ==
  /\ slots[r].pc = "catchlink"
  /\ LET id == slots[r].user.id
         externalId == slots[r].externalUser.id
     IN IF ExternalIdFree(users, id, externalId)
        THEN /\ users' = linkUser(users, id, externalId, SyncRole(r))
             /\ SyncStep(r, "catchrefresh", slots[r].user, TRUE)
        ELSE /\ SyncThrow(r, TRUE)
             /\ UNCHANGED users
  /\ UNCHANGED <<deployment, now, introspectionCache, cache_data>>

\* Lines 256-274: the refreshed row is returned.
CatchRefresh(r) ==
  /\ slots[r].pc = "catchrefresh"
  /\ SyncReturn(r, withExternalId(UserById(users, slots[r].user.id),
                                  slots[r].externalUser.id), "linked")
  /\ UNCHANGED <<deployment, now, users, introspectionCache, cache_data>>

Next ==
  \/ \E auth \in clients : AdminOnlyAuth(auth)
  \/ \E auth \in clients : RequireAdmin(auth)
  \/ \E auth \in clients : RequireAdminJWT(auth)
  \/ \E auth \in clients : UnifiedAuth(auth)
  \/ \E auth \in clients : UnifiedAuthApiKeyFirst(auth)
  \/ \E auth \in clients : ValidatedRequestApiKeyFirst(auth)
  \/ \E auth \in clients : ValidatedRequest(auth)
  \/ \E auth \in clients : ValidateExternalToken(auth)
  \/ \E r \in Requests : AdminUserGet(r)
  \/ \E r \in Requests : AdminUserGetByName(r)
  \/ \E r \in Requests : InternalAdminGet(r)
  \/ \E r \in Requests : MultiUserGet(r)
  \/ \E r \in Requests : \E kind \in ResponseKinds : FetchReturn(r, kind)
  \/ \E r \in Requests : FetchAbort(r)
  \/ \E r \in Requests :
       /\ slots[r].pc = "body"
       /\ \E resp \in IdpResponses(splitToken(slots[r].auth), config) :
            FetchBody(r, resp)
  \/ \E r \in Requests : UserGet(r)
  \/ \E r \in Requests : FindOrCreateUser(r)
  \/ \E r \in Requests : CacheGet(r)
  \/ \E r \in Requests : \E kind \in ResponseKinds : CallReturn(r, kind)
  \/ \E r \in Requests :
       /\ slots[r].pc = "calljson"
       /\ \E resp \in IdpResponses(slots[r].auth.token, config) :
            CallBody(r, resp)
  \/ \E r \in Requests : CacheFallback(r)
  \/ \E r \in Requests : CacheDelete(r)
  \/ \E r \in Requests : CacheCreate(r)
  \/ \E r \in Requests : FindByExternalId(r)
  \/ \E r \in Requests : FindByUsername(r)
  \/ \E r \in Requests : LinkExisting(r)
  \/ \E r \in Requests : RefreshLinked(r)
  \/ \E r \in Requests : UpdateExisting(r)
  \/ \E r \in Requests : CreateUser(r)
  \/ \E r \in Requests : SetExternalId(r)
  \/ \E r \in Requests : CatchFindByExternalId(r)
  \/ \E r \in Requests : CatchFindByUsername(r)
  \/ \E r \in Requests : CatchLink(r)
  \/ \E r \in Requests : CatchRefresh(r)
  \/ Cleanup
  \/ Tick

Spec == Init /\ [][Next]_vars

\* The steps of a request in flight that the server takes on its own: the
\* timer of the fetch of introspectKeystoneToken, which runs while that
\* fetch is pending, and the database accesses.  What the identity
\* provider sends (FetchReturn, FetchBody, CallReturn, CallBody) is not
\* among them.
OwnStep(r) ==
  \/ FetchAbort(r)
  \/ AdminUserGet(r)
  \/ AdminUserGetByName(r)
  \/ InternalAdminGet(r)
  \/ MultiUserGet(r)
  \/ UserGet(r)
  \/ FindOrCreateUser(r)
  \/ CacheGet(r)
  \/ CacheFallback(r)
  \/ CacheDelete(r)
  \/ CacheCreate(r)
  \/ FindByExternalId(r)
  \/ FindByUsername(r)
  \/ LinkExisting(r)
  \/ RefreshLinked(r)
  \/ UpdateExisting(r)
  \/ CreateUser(r)
  \/ SetExternalId(r)
  \/ CatchFindByExternalId(r)
  \/ CatchFindByUsername(r)
  \/ CatchLink(r)
  \/ CatchRefresh(r)

\* The server keeps running: a step of its own that stays possible is
\* taken.  Nothing is assumed of the identity provider.
LiveSpec == Spec /\ \A r \in Requests : WF_vars(OwnStep(r))

\* ------------------------------------------------------------------------
\* validateExternalToken over stores that can fail
\* ------------------------------------------------------------------------
\* Variant: an error of the store inside setCachedIntrospection reaches
\* the caller.
setCachedIntrospection_uncaught(storeThrew) == storeThrew

\* Whether setCachedIntrospection throws when CacheData.delete or
\* CacheData.new threw: the try of cache.js:46-63 catches every error.
setCachedIntrospection_throws(storeThrew) == FALSE

\* CacheData.get throws in the first lookup of validateViaIntrospection:
\* the catch of getCachedIntrospection returns null and the endpoint is
\* called.  The request remembers in `missed` the data a read that worked
\* would have returned, when there was any.
CacheGetFails(r) ==
  /\ slots[r].pc = "cacheget"
  /\ LET auth   == slots[r].auth
         stored == getCachedIntrospection(cache_data, hashToken(auth.token),
                                          slots[r].at)
     IN Wait(r, [pc |-> "call", auth |-> auth, missed |-> stored])
  /\ logAuthEvent(0)
  /\ UNCHANGED <<deployment, now, users, introspectionCache, cache_data>>

\* CacheData.get throws in the lookup of the catch
\* (validateExternalToken.js:164-172): cachedResult is null and the error
\* is thrown on.
CacheFallbackGetFails(r) ==
  /\ slots[r].pc = "fallback"
  /\ AfterIntrospection(r, slots[r].auth, Null,
                        Meta(1, Null, slots[r].resp, Null, Null))
  /\ UNCHANGED <<deployment, now, users, introspectionCache, cache_data, resolved>>

\* validateViaIntrospection after a setCachedIntrospection whose store
\* operation threw (validateExternalToken.js:160-176): the try of
\* cache.js:46-63 swallows the error and the provider's result is returned;
\* an error that got out would lead to the lookup of the catch.
AfterFailedWrite(r) ==
  IF setCachedIntrospection_throws(TRUE)
  THEN FallbackBegin(r, "active") /\ logAuthEvent(0)
  ELSE /\ AfterIntrospection(r, slots[r].auth, slots[r].introspection,
                             Meta(1, Null, "active", Null, slots[r].introspection))
       /\ UNCHANGED resolved

\* CacheData.delete throws: CacheData.new is not reached.
CacheDeleteFails(r) ==
  /\ slots[r].pc = "delete"
  /\ AfterFailedWrite(r)
  /\ UNCHANGED <<deployment, now, users, introspectionCache, cache_data>>

\* CacheData.new throws after the delete went through.
CacheNewFails(r) ==
  /\ slots[r].pc = "create"
  /\ AfterFailedWrite(r)
  /\ UNCHANGED <<deployment, now, users, introspectionCache, cache_data>>

\* Variant: an error of EventLogs.logEvent leaves logAuthEvent.
logAuthEvent_uncaught(storeThrew) == storeThrew

\* Whether the promise of logAuthEvent rejects when EventLogs.logEvent
\* threw: the try of auditAuth.js:23-41 catches every error.
logAuthEvent_throws(storeThrew) == FALSE

\* One pending EventLogs.logEvent settles, at any step after the call of
\* logAuthEvent that started it, requests in flight or not: the row is
\* written, or the write throws and the catch of logAuthEvent logs to the
\* console.  No caller awaits the promise or handles its rejection: an
\* error that left logAuthEvent would be an unhandled rejection, which
\* ends the process and with it the requests in flight.
LogAuthEvent(ok) ==
  /\ eventLogs # NotFollowed /\ eventLogs.pending > 0
  /\ eventLogs' = [pending |-> eventLogs.pending - 1, failed |-> ~ok]
  /\ slots' = IF logAuthEvent_throws(~ok) THEN [r \in Requests |-> Idle]
              ELSE slots
  /\ last' = Null
  /\ UNCHANGED <<deployment, now, users, introspectionCache, cache_data,
                 resolved>>

\* Callers holding the token of an identity that has no local account yet
\* or of one whose account is not linked yet, external authentication
\* enabled in multi-user mode with the issuer and audience the provider
\* reports.
FaultsInit ==
  /\ Started
  /\ eventLogs = NoLogs
  /\ mounted = "validateExternalToken"
  /\ config = Deployment(TRUE, "true", "keystone", "anythingllm", FALSE, TRUE)
  /\ clients \in {{Header("Bearer", t)} : t \in {ExtJwtC, ExtJwtD}}
  /\ syncVersion = "byUsername"

FaultsNext ==
  \/ \E auth \in clients : ValidateExternalToken(auth)
  \/ \E r \in Requests : CacheGet(r)
  \/ \E r \in Requests : CacheGetFails(r)
  \/ \E r \in Requests : \E kind \in ResponseKinds : CallReturn(r, kind)
  \/ \E r \in Requests :
       /\ slots[r].pc = "calljson"
       /\ \E resp \in IdpResponses(slots[r].auth.token, config) :
            CallBody(r, resp)
  \/ \E r \in Requests : CacheFallback(r)
  \/ \E r \in Requests : CacheFallbackGetFails(r)
  \/ \E r \in Requests : CacheDelete(r)
  \/ \E r \in Requests : CacheDeleteFails(r)
  \/ \E r \in Requests : CacheCreate(r)
  \/ \E r \in Requests : CacheNewFails(r)
  \/ \E ok \in BOOLEAN : LogAuthEvent(ok)
  \/ \E r \in Requests : FindByExternalId(r)
  \/ \E r \in Requests : FindByUsername(r)
  \/ \E r \in Requests : LinkExisting(r)
  \/ \E r \in Requests : RefreshLinked(r)
  \/ \E r \in Requests : UpdateExisting(r)
  \/ \E r \in Requests : CreateUser(r)
  \/ \E r \in Requests : SetExternalId(r)
  \/ \E r \in Requests : CatchFindByExternalId(r)
  \/ \E r \in Requests : CatchFindByUsername(r)
  \/ \E r \in Requests : CatchLink(r)
  \/ \E r \in Requests : CatchRefresh(r)
  \/ Tick

SpecFaults == FaultsInit /\ [][FaultsNext]_vars

\* ------------------------------------------------------------------------
\* mapExternalRoleToAnythingLLMRole on its own
\* ------------------------------------------------------------------------
\* Role names: the ones the table knows, other role words, spellings of
\* admin, values that stringify like absent or object roles, and names of
\* properties every object has.
RoleNames ==
  {"admin", "user", "default", "manager", "Admin", "ADMIN", " admin",
   "administrator", "superadmin", "root", "owner", "guest", "",
   "undefined", "null", "[object Object]"} \cup InheritedKeys

ExternalRoles ==
  {RoleString(n) : n \in RoleNames}
    \cup {RoleObject(n) : n \in RoleNames \cup {None}}
    \cup {NoRole}

\* No request is in flight and none arrives.
NoRequests ==
  /\ mounted = "validatedRequest"
  /\ config = Deployment(TRUE, "true", "keystone", "anythingllm", FALSE, TRUE)
  /\ clients = {}
  /\ syncVersion = "byUsername"
  /\ now = 0
  /\ users = InitUsers
  /\ introspectionCache = {}
  /\ cache_data = <<>>
  /\ slots = [r \in Requests |-> Idle]
  /\ last = Null
  /\ eventLogs = NotFollowed
  /\ resolved = {}

\* Nor is the configuration module under study.
NoTraffic ==
  /\ NoRequests
  /\ processEnv = Null
  /\ loadResult = NotLoaded

traffic == <<mounted, config, clients, syncVersion, now, users,
             introspectionCache, cache_data, slots, last, eventLogs, resolved,
             loading>>

RolesInit ==
  /\ externalRole \in ExternalRoles
  /\ mappedRole = None
  /\ NoTraffic
  /\ response = [principal |-> Null, user |-> Null]
  /\ prismaQuery = [where |-> Null, select |-> None, include |-> None]
  /\ returned = Pending
  /\ issued = <<>>
  /\ checked = Null
  /\ verdict = NoVerdict

MapRole ==
  /\ mappedRole = None
  /\ mappedRole' = mapExternalRoleToAnythingLLMRole(externalRole)
  /\ UNCHANGED <<traffic, externalRole, access, checks>>

SpecRoles == RolesInit /\ [][MapRole]_vars

\* ------------------------------------------------------------------------
\* utils/auth/config.js on its own
\* ------------------------------------------------------------------------
Environments ==
  {ProcessEnv(enabled, mode, apiUrl, serviceKey, jwtSecret, nodeEnv, requireHttps) :
     enabled \in EnabledRaw, mode \in {Unset, "introspect", "shared-secret"},
     apiUrl \in {Unset, "https://keystone.example", "HTTPS://keystone.example",
                 "http://keystone.example", "keystone.example"},
     serviceKey \in {Unset, "service-key"}, jwtSecret \in {Unset, "shared"},
     nodeEnv \in {Unset, "production", "development"},
     requireHttps \in {Unset, "false", "true"}}

ConfigInit ==
  /\ processEnv \in Environments
  /\ loadResult = NotLoaded
  /\ NoRequests
  /\ externalRole = NoRole
  /\ mappedRole = None
  /\ response = [principal |-> Null, user |-> Null]
  /\ prismaQuery = [where |-> Null, select |-> None, include |-> None]
  /\ returned = Pending
  /\ issued = <<>>
  /\ checked = Null
  /\ verdict = NoVerdict

\* require("../auth/config")
LoadConfig ==
  /\ loadResult = NotLoaded
  /\ loadResult' = loadConfig(processEnv)
  /\ loadResult' # NotLoaded
  /\ UNCHANGED <<mounted, config, clients, syncVersion, now, users,
                 introspectionCache, cache_data, slots, last, eventLogs,
                 resolved, externalRole, mappedRole, access, checks, processEnv>>

SpecConfig == ConfigInit /\ [][LoadConfig]_vars

\* ------------------------------------------------------------------------
\* The issuer and audience checks on their own
\* ------------------------------------------------------------------------
\* Deployments with and without an expected issuer and audience, and
\* active, unexpired introspection results whose iss and aud are the
\* expected values, other values, or absent.
CheckInputs ==
  {[cfg |-> Deployment(TRUE, "true", iss, aud, FALSE, TRUE),
    result |-> [Body(TRUE, ExtJwtB, Deployment(TRUE, "true", iss, aud, FALSE, TRUE),
                     RoleString("user")) EXCEPT !.iss = riss, !.aud = raud]] :
     iss \in {None, "keystone"}, aud \in {None, "anythingllm"},
     riss \in {None, "keystone", "other-issuer"},
     raud \in {None, "anythingllm", "other-audience"}}

ChecksInit ==
  /\ checked \in CheckInputs
  /\ verdict = NoVerdict
  /\ NoTraffic
  /\ externalRole = NoRole
  /\ mappedRole = None
  /\ response = [principal |-> Null, user |-> Null]
  /\ prismaQuery = [where |-> Null, select |-> None, include |-> None]
  /\ returned = Pending
  /\ issued = <<>>

\* introspectKeystoneToken's checks of a response (keystoneIntrospection.js)
CheckInMemoryPath ==
  /\ verdict = NoVerdict
  /\ verdict' = Verdict("introspectKeystoneToken",
                  memValidate(checked.cfg, [kind |-> "ok", body |-> checked.result],
                              now) = Null)
  /\ UNCHANGED <<traffic, externalRole, mappedRole, access, checked>>

\* validateExternalToken's checks of an introspection result
CheckInValidateExternalToken ==
  /\ verdict = NoVerdict
  /\ verdict' = Verdict("validateExternalToken",
                  introspectionRejected(checked.result, checked.cfg))
  /\ UNCHANGED <<traffic, externalRole, mappedRole, access, checked>>

ChecksNext == CheckInMemoryPath \/ CheckInValidateExternalToken

SpecChecks == ChecksInit /\ [][ChecksNext]_vars

\* ------------------------------------------------------------------------
\* utils/workspaces/access.js on its own
\* ------------------------------------------------------------------------
\* The callers: with an admin principal, a default principal or none, and
\* with a local user or none.
Responses ==
  [principal : {Null,
                Principal("admin", None, 1, RoleString("admin"), "admin",
                          None, None, Null),
                Principal("default", "s1", NoNum, RoleString("admin"), None,
                          "s1", "keystone", Null)},
   user : {Null} \cup {u \in InitUsers : u.id \in {1, 2}}]

SomeClauses ==
  {Null, EmptySome, [user_id |-> 1, role |-> "manager"],
   [user_id |-> 2, role |-> None], [user_id |-> NoNum, role |-> "manager"]}

WhereClauses ==
  {Null, EmptyWhere, [slug |-> "ws", workspace_users |-> Null]}
    \cup {[slug |-> sl, workspace_users |-> [some |-> sm, none |-> nn]] :
            sl \in {None, "ws"}, sm \in SomeClauses,
            nn \in {Null, [user_id |-> 1, role |-> None]}}

PrismaQueries ==
  [where : WhereClauses, select : {None, "id"}, include : {None, "threads"}]

AccessInit ==
  /\ response \in Responses
  /\ prismaQuery \in PrismaQueries
  /\ returned = Pending
  /\ issued = <<>>
  /\ checked = Null
  /\ verdict = NoVerdict
  /\ NoTraffic
  /\ externalRole = NoRole
  /\ mappedRole = None

\* scopeWorkspaceQuery(response, prismaQuery)
ScopeWorkspaceQuery ==
  /\ returned = Pending
  /\ returned' = Returned("scopeWorkspaceQuery",
                          scopeWorkspaceQuery(response, prismaQuery))
  /\ UNCHANGED <<traffic, externalRole, mappedRole, response, prismaQuery,
                 issued, checks>>

\* getWorkspaceForRequest(response, clause, options), the clause and the
\* options being those of the query the caller holds; an absent clause
\* takes the default {}.
GetWorkspaceForRequest ==
  /\ returned = Pending
  /\ LET clause == IF prismaQuery.where = Null THEN EmptyWhere
                   ELSE prismaQuery.where
         q == getWorkspaceForRequest_query(response, clause, prismaQuery)
     IN IF q = Null
        THEN /\ returned' = Returned("getWorkspaceForRequest", Null)
             /\ issued' = issued
        ELSE /\ returned' = Returned("getWorkspaceForRequest",
                                     Workspace_findFirst(q))
             /\ issued' = Append(issued, [method |-> "_findFirst", query |-> q])
  /\ UNCHANGED <<traffic, externalRole, mappedRole, response, prismaQuery,
                 checks>>

\* getAccessibleWorkspaceIds(response)
GetAccessibleWorkspaceIds ==
  /\ returned = Pending
  /\ LET q == getAccessibleWorkspaceIds_query(response)
     IN IF q = Null
        THEN /\ returned' = Returned("getAccessibleWorkspaceIds", {})
             /\ issued' = issued
        ELSE /\ returned' = Returned("getAccessibleWorkspaceIds",
                                     Workspace_findMany(q))
             /\ issued' = Append(issued, [method |-> "_findMany", query |-> q])
  /\ UNCHANGED <<traffic, externalRole, mappedRole, response, prismaQuery,
                 checks>>

AccessNext ==
  \/ ScopeWorkspaceQuery
  \/ GetWorkspaceForRequest
  \/ GetAccessibleWorkspaceIds

SpecAccess == AccessInit /\ [][AccessNext]_vars

\* ------------------------------------------------------------------------
\* Vocabulary of the properties
\* ------------------------------------------------------------------------
Locals(l) == [principal |-> l.out.principal, user |-> l.out.user]

StoredKeys == {k.secret : k \in ApiKeys}

HoldsBearer(l, toks) == l.auth.scheme = "Bearer" /\ l.auth.token \in toks

Rejected401(l) == l.out.status = 401 /\ l.out.nexts = 0

NothingAttached(l) ==
  l.out.principal = Null /\ l.out.user = Null /\ l.out.reqUser = Null

SharedRouteMiddlewares ==
  {"unifiedAuth", "unifiedAuthApiKeyFirst", "validatedRequestApiKeyFirst",
   "validatedRequest", "validateExternalToken"}

\* The mounted middleware sends the external tokens to introspection.
Introspecting ==
  CASE mounted = "validatedRequest" ->
         ExternalAuthConfig_enabled(config) /\ config.multiUserMode
    [] mounted = "validateExternalToken" ->
         ExternalAuthConfig_enabled(config)
    [] mounted \in {"unifiedAuth", "unifiedAuthApiKeyFirst"} ->
         normalizeFlag(config.enabledRaw) = "true"
    [] mounted = "validatedRequestApiKeyFirst" ->
         normalizeFlag(config.enabledRaw) = "true" /\ config.multiUserMode
    [] OTHER -> FALSE

\* The cache the mounted middleware reads holds an entry for the token's
\* cache key; HasLive: one that has not expired.
HadEntry(token) ==
  IF mounted \in ExternalValidators
  THEN \E i \in DOMAIN cache_data : cache_data[i].name = cacheKey(hashToken(token))
  ELSE \E e \in introspectionCache : e.key = memCacheKey(token)

LiveAt(token, t) ==
  IF mounted \in ExternalValidators
  THEN \E i \in DOMAIN cache_data :
         /\ cache_data[i].name = cacheKey(hashToken(token))
         /\ cache_data[i].expiresAt > DateNow(t)
  ELSE \E e \in introspectionCache :
         e.key = memCacheKey(token) /\ e.expiresAt > DateNow(t)

HasLive(token) == LiveAt(token, now)

\* scopeWorkspaceQuery leaves every query as it is / pins every query to the
\* given user id.
Unscoped(l) == \A q \in Queries : scopeWorkspaceQuery(Locals(l), q) = q

ScopedTo(l, id) ==
  \A q \in Queries :
    LET scoped == scopeWorkspaceQuery(Locals(l), q) IN
    scoped # Null /\ scoped.where.workspace_users.some.user_id = id

\* ------------------------------------------------------------------------
\* Trust tiers (C1 - C6)
\* ------------------------------------------------------------------------
\* C1: on the role-based unifiedAuth a request is granted an Admin principal
\* only if its bearer token's signature verifies against the configured
\* secret, the token is unexpired and the verified role is admin; a token
\* that claims role admin but does not verify is rejected with 401 and
\* next() is not called.
C1_AdminOnlyWhenSignatureVerifies ==
  (mounted = "unifiedAuth" /\ last # Null /\ HoldsBearer(last, Tokens)) =>
    LET token    == last.auth.token
        verified == JWT_verify(token, config.jwtSecret, now)
        decoded  == JWT_decode(token)
    IN /\ isAdminRequest(Locals(last)) =>
            (verified # Null /\ verified.role = "admin")
       /\ (decoded # Null /\ decoded.role = "admin" /\ verified = Null) =>
            Rejected401(last)

\* C2: a request accepted on the strength of an introspection result is not
\* an Admin request, carries principal type default where a principal is
\* attached, and has every workspace query pinned to the local user of the
\* token's own subject, whatever role the introspection result carries.
C2_IntrospectedCallerScopedToItself ==
  (last # Null /\ last.result # Null /\ last.out.nexts = 1) =>
    /\ ~isAdminRequest(Locals(last))
    /\ last.out.principal # Null => last.out.principal.type = "default"
    /\ last.out.user # Null
    /\ last.out.user.externalId = last.auth.token.sub
    /\ ScopedTo(last, last.out.user.id)

\* C3: in multi-user mode every stored API key sent as bearer token to a
\* shared route is rejected with 401 and next() is not called.
C3_StoredKeyRejectedOnSharedRoutes ==
  (mounted \in SharedRouteMiddlewares /\ config.multiUserMode
     /\ last # Null /\ HoldsBearer(last, StoredKeys)) =>
    Rejected401(last)

\* C4 (as stated): adminOnlyAuth and requireAdmin reject with 401, without
\* calling next(), every bearer token that is not a stored API key.
C4_NonKeyRejectedByAdminOnly_AnyMode ==
  (mounted \in {"adminOnlyAuth", "requireAdmin"} /\ last # Null
     /\ HoldsBearer(last, Tokens \ StoredKeys)) =>
    Rejected401(last)

\* C4 (amended): adminOnlyAuth in every mode, and requireAdmin in
\* multi-user mode, reject with 401, without calling next() and without
\* attaching anything, every bearer token that is not a stored API key.
C4_NonKeyRejectedByAdminOnly ==
  (last # Null /\ HoldsBearer(last, Tokens \ StoredKeys)
     /\ (mounted = "adminOnlyAuth"
           \/ (mounted = "requireAdmin" /\ config.multiUserMode))) =>
    (Rejected401(last) /\ NothingAttached(last))

C4_Witness ==
  /\ mounted = "requireAdmin" /\ config.multiUserMode
  /\ last # Null /\ last.auth = Header("Bearer", AdminJwt)
  /\ JWT_verify(AdminJwt, config.jwtSecret, now) # Null
  /\ Rejected401(last)

\* The creator of a stored key exists, is an admin and is not suspended.
CreatorIsActiveAdmin(secret) ==
  \E k \in ApiKeys : \E u \in users :
    /\ k.secret = secret /\ k.createdBy # NoNum
    /\ u.id = k.createdBy /\ u.role = "admin" /\ ~u.suspended

\* The request went through and the caller counts as Admin: by principal
\* (adminOnlyAuth) or by request.user (requireAdmin).
AcceptedAsAdmin(l) ==
  /\ l.out.nexts = 1 /\ l.out.status = 0
  /\ \/ isAdminRequest(Locals(l))
     \/ (l.out.reqUser # Null /\ l.out.reqUser.role = "admin")

\* C5 (as stated): adminOnlyAuth and requireAdmin accept every stored API
\* key and classify the caller as Admin.
C5_StoredKeyAcceptedAsAdmin_Always ==
  (mounted \in {"adminOnlyAuth", "requireAdmin"} /\ last # Null
     /\ HoldsBearer(last, StoredKeys)) =>
    AcceptedAsAdmin(last)

\* C5 (amended): adminOnlyAuth accepts every stored API key and classifies
\* the caller as Admin; requireAdmin in multi-user mode does so exactly for
\* the keys whose creator exists, is an admin and is not suspended, and
\* rejects the other stored keys with 401 or 403 without calling next().
C5_StoredKeyAcceptedAsAdmin ==
  (last # Null /\ HoldsBearer(last, StoredKeys)) =>
    /\ mounted = "adminOnlyAuth" => AcceptedAsAdmin(last)
    /\ (mounted = "requireAdmin" /\ config.multiUserMode) =>
         IF CreatorIsActiveAdmin(last.auth.token)
         THEN AcceptedAsAdmin(last)
         ELSE last.out.nexts = 0 /\ last.out.status \in {401, 403}

C5_Witness ==
  /\ mounted = "requireAdmin" /\ config.multiUserMode
  /\ last # Null /\ last.auth = Header("Bearer", KeyC)
  /\ last.out.status = 403 /\ last.out.nexts = 0

\* A bearer token is a valid admin JWT: it verifies against the configured
\* secret, is unexpired, and names an existing admin who is not suspended.
ValidAdminJwt(token) ==
  LET verified == JWT_verify(token, config.jwtSecret, now) IN
  /\ verified # Null /\ verified.role = "admin" /\ verified.id # NoNum
  /\ \E u \in users : u.id = verified.id /\ u.role = "admin" /\ ~u.suspended

\* C6: with external authentication enabled in multi-user mode, a request
\* carrying a valid admin JWT to validatedRequest or to the role-based
\* unifiedAuth is accepted, isAdminRequest is true for it and
\* scopeWorkspaceQuery returns every query unmodified.
C6_AdminJwtHasFullVisibility ==
  (mounted \in {"validatedRequest", "unifiedAuth"}
     /\ ExternalAuthConfig_enabled(config) /\ config.multiUserMode
     /\ last # Null /\ HoldsBearer(last, LocalJwts)
     /\ ValidAdminJwt(last.auth.token)) =>
    /\ last.out.nexts = 1
    /\ isAdminRequest(Locals(last))
    /\ Unscoped(last)

\* ------------------------------------------------------------------------
\* Introspection and its caches (C7 - C10)
\* ------------------------------------------------------------------------
\* The failed introspection call of request r is dealt with in this step:
\* introspectKeystoneToken returns null for a fetch or a body that failed,
\* validateViaIntrospection gets the answer of the lookup it made when its
\* call failed.  The request ends here, or goes on to resolve the local
\* user.
CallFailsNow(r) ==
  /\ slots[r].pc \in {"fetch", "body", "fallback"} /\ slots'[r] # slots[r]
  /\ \/ /\ slots'[r] = Idle /\ last' # Null
        /\ last'.resp \in {"throw", "status"}
     \/ /\ slots'[r].pc = "find"
        /\ slots'[r].meta.resp \in {"throw", "status"}

\* The date by which the lookup that request r waits for judges expiry:
\* the date its query was built with; a request that waits for no lookup
\* reads the clock as it is.
LookupDate(r) ==
  IF slots[r].pc \in {"cacheget", "fallback"} THEN slots[r].at ELSE now

\* C7: a request that missed the cache, whose introspection call fails
\* (thrown fetch, non-2xx status or broken body) while the cache holds no
\* entry for its token that was unexpired when the call failed, is
\* rejected with 401: next() is not called and no principal or user is
\* attached.
C7_FailedIntrospectionRejects ==
  [][\A r \in Requests :
       (CallFailsNow(r) /\ ~LiveAt(slots[r].auth.token, LookupDate(r))) =>
         (last' # Null /\ Rejected401(last') /\ NothingAttached(last'))]_vars

C7_Witness ==
  /\ mounted = "validateExternalToken"
  /\ last # Null /\ last.calls = 1 /\ last.resp = "throw"
  /\ HadEntry(last.auth.token) /\ ~HasLive(last.auth.token)
  /\ Rejected401(last)

\* C8: a cached introspection result is served only to a request presenting
\* the very token it was stored for: a request settled by a cache hit
\* carries the token whose introspection produced the cached result.
C8_CacheHitOnlyForSameToken ==
  (last # Null /\ last.hit # Null) => last.hit.forToken = last.auth.token

\* The cache lookup of request r, made with this header, is answered in
\* this step and the request starts an introspection call:
\* introspectKeystoneToken reads its Map in the step the request arrives,
\* validateViaIntrospection gets the answer of CacheData.get.
StartsCallIn(r, auth) ==
  /\ slots'[r] # Idle /\ slots'[r].auth = auth
  /\ \/ slots[r] = Idle /\ slots'[r].pc = "fetch"
     \/ slots[r].pc = "cacheget" /\ slots'[r].pc = "call"

\* A request with this header starts an introspection call in this step.
StartsCall(auth) == \E r \in Requests : StartsCallIn(r, auth)

\* Request r, made with this header, gets past its cache lookup without a
\* call in this step: it is answered, or goes on to resolve the local
\* user.
PassesWithoutCall(r, auth) ==
  \/ /\ slots[r] = Idle /\ slots'[r].pc = "userget"
     /\ slots'[r].auth = auth /\ slots'[r].meta.calls = 0
  \/ /\ slots[r].pc = "cacheget" /\ slots[r].auth = auth
     /\ \/ slots'[r] = Idle /\ last' # Null /\ last'.calls = 0
        \/ slots'[r].pc = "find" /\ slots'[r].meta.calls = 0

\* A request with this header is answered in the step it arrives in,
\* without a call.
AnsweredAtOnce(auth) ==
  /\ last' # Null /\ last'.auth = auth /\ last'.calls = 0
  /\ slots' = slots

\* The cache holds for the token only an entry that had expired at date t.
OnlyExpiredAt(token, t) == HadEntry(token) /\ ~LiveAt(token, t)

\* One step of the property as stated, without regard to the pre-check.
\* Expiry is judged by the date the request's lookup was made for
\* (LookupDate), and for a request answered before any lookup by the clock.
C9_Original_Step ==
  \A auth \in clients \cap ExternalBearers :
    Introspecting =>
      /\ \A r \in Requests :
           /\ LiveAt(auth.token, LookupDate(r)) => ~StartsCallIn(r, auth)
           /\ OnlyExpiredAt(auth.token, LookupDate(r)) =>
                ~PassesWithoutCall(r, auth)
      /\ OnlyExpiredAt(auth.token, now) => ~AnsweredAtOnce(auth)

\* C9 (as stated): while the cache holds an unexpired entry for a token,
\* no request with that token starts an introspection call; once the entry
\* a token had has expired, no request with that token is settled without
\* a call.
C9_ZeroCallsWhileCachedOneAfterExpiry_Always == [][C9_Original_Step]_vars

\* At date t the token is not past the expiry pre-check made before any
\* lookup; only validateExternalToken makes one.
PassesPreCheck(token, t) ==
  mounted \in ExternalValidators => ~(token.exp + skew < t)

\* One step of the property with the pre-check taken into account.
C9_Step ==
  \A auth \in clients \cap ExternalBearers :
    Introspecting =>
      /\ \A r \in Requests :
           /\ LiveAt(auth.token, LookupDate(r)) => ~StartsCallIn(r, auth)
           /\ OnlyExpiredAt(auth.token, LookupDate(r)) =>
                ~PassesWithoutCall(r, auth)
      /\ (OnlyExpiredAt(auth.token, now) /\ PassesPreCheck(auth.token, now)) =>
           ~AnsweredAtOnce(auth)

\* C9 (amended): a request whose cache lookup finds, under its token's
\* cache key, an entry that had not expired at the date the lookup was made
\* for starts no introspection call; a request whose lookup finds only an
\* entry that had expired by that date is not settled without a call; a
\* request whose token is past the expiry pre-check of
\* validateExternalToken is settled before any lookup.
C9_ZeroCallsWhileCachedOneAfterExpiry == [][C9_Step]_vars

\* A request waits for the answer of the endpoint, its one call, while the
\* table holds for its token only a row that has expired.
C9_Witness ==
  /\ mounted = "validateExternalToken"
  /\ \E r \in Requests :
       /\ slots[r].pc = "call"
       /\ HadEntry(slots[r].auth.token) /\ ~HasLive(slots[r].auth.token)
       /\ \A q \in Requests \ {r} : slots[q] = Idle

\* C10: every entry of the cache_data table and of the in-memory Map holds
\* an active result, and a step that handles an inactive introspection
\* response leaves both caches as they were.
C10_OnlyActiveResultsCached ==
  /\ [](/\ \A i \in DOMAIN cache_data : cache_data[i].data.active
        /\ \A e \in introspectionCache : e.data.active)
  /\ [][(last' # Null /\ last'.resp = "inactive") =>
          UNCHANGED <<cache_data, introspectionCache>>]_vars

C10_Witness ==
  /\ last # Null /\ last.resp = "inactive"
  /\ (cache_data # <<>> \/ introspectionCache # {})

\* C11: every cache entry expires no later than the token it was created
\* for: expiresAt of each row of cache_data and of each entry of the Map is
\* at most the exp of that token.
C11_ExpiresAtWithinTokenLifetime ==
  /\ \A i \in DOMAIN cache_data :
       cache_data[i].expiresAt <= DateNow(cache_data[i].data.forToken.exp)
  /\ \A e \in introspectionCache :
       e.expiresAt <= DateNow(e.data.forToken.exp)

\* ------------------------------------------------------------------------
\* External user provisioning (C12 - C18)
\* ------------------------------------------------------------------------
\* The rows of the users table linked to an external id under the provider
\* of the mounted middleware.
LinkedRows(externalId) ==
  {u \in users : u.externalId = externalId
                   /\ u.externalProvider = Provider(mounted)}

\* The latest step completed a request that syncExternalUser resolved.
Synced == last # Null /\ last.sync.path # None

\* C12: an account that syncExternalUser found by the derived username and
\* linked or returned is, in the users table, linked to the caller's own
\* external id; and no two distinct external ids have ever resolved to the
\* same local user id.
C12_DistinctIdentitiesDistinctUsers ==
  /\ (Synced /\ last.out.user # Null /\ last.sync.path \in {"linked", "updated"}) =>
       UserById(users, last.out.user.id).externalId = last.result.sub
  /\ \A a \in resolved : \A b \in resolved : a[1] # b[1] => a[2] # b[2]

\* C13: every external id that has authenticated has exactly one users row
\* linked to it, and all its authentications resolved to one local user id.
C13_SameIdentityOneRecord ==
  \A a \in resolved :
    /\ Cardinality(LinkedRows(a[1])) = 1
    /\ \A b \in resolved : a[1] = b[1] => a[2] = b[2]

\* C14: whatever the interleaving of the lookups, creates and updates of
\* concurrent requests, a request that syncExternalUser handled is
\* authenticated unless its local user is suspended, a unique constraint
\* violation it met is never answered with a failure, and it ends with
\* exactly one users row linked to its external id, that row being the
\* local user it is authenticated as.
C14_ConcurrentProvisioningConverges ==
  Synced =>
    /\ last.sync.conflict => last.out.nexts = 1
    /\ last.out.nexts = 1 \/ last.out.error = "User is suspended from system"
    /\ last.out.nexts = 1 =>
         /\ Cardinality(LinkedRows(last.result.sub)) = 1
         /\ \A u \in LinkedRows(last.result.sub) : u.id = last.out.user.id

\* C15: a request that acts on an active introspection result whose
\* external id is linked to a suspended local user is rejected with 401 and
\* next() is not called; and no request is let through with a suspended
\* user attached.
C15_SuspendedUserRejected ==
  /\ (last # Null /\ last.result # Null /\ last.result.active
        /\ \E u \in LinkedRows(last.result.sub) : u.suspended) =>
       Rejected401(last)
  /\ (last # Null /\ last.out.nexts = 1 /\ last.out.user # Null) =>
       ~UserById(users, last.out.user.id).suspended

C15_Witness ==
  /\ mounted = "unifiedAuth"
  /\ last # Null /\ last.auth = Header("Bearer", ExtJwtD)
  /\ last.result # Null /\ last.result.active /\ last.result.sub = "s4"
  /\ \E u \in LinkedRows("s4") : u.suspended
  /\ last.out.error = "User is suspended from system"
  /\ Rejected401(last)

\* C16: mapExternalRoleToAnythingLLMRole returns, for every role value,
\* one of the strings admin and default, and admin only for the role admin
\* given as a string or as the name of a role object.
C16_RoleMappingTotalAndClosed ==
  mappedRole # None =>
    /\ mappedRole \in {"admin", "default"}
    /\ mappedRole = "admin" =>
         externalRole \in {RoleString("admin"), RoleObject("admin")}

\* C17: every users row that syncExternalUser created or updated has role
\* default.
C17_ExternalUsersAlwaysDefault ==
  (mounted \in ExternalValidators /\ Synced /\ last.out.user # Null) =>
    UserById(users, last.out.user.id).role = "default"

\* C18: after a successful external authentication the stored role of the
\* local user is the mapped value of the role claim of the introspection
\* result the request acted on.
C18_StoredRoleFollowsRoleClaim ==
  (last # Null /\ last.result # Null /\ last.out.nexts = 1
     /\ last.out.user # Null) =>
    UserById(users, last.out.user.id).role =
      mapExternalRoleToAnythingLLMRole(last.result.role)

\* ------------------------------------------------------------------------
\* Malformed credentials (C19, C20)
\* ------------------------------------------------------------------------
\* Bearer values that are neither a stored API key nor decodable as a JWT.
Undecodable == {t \in Tokens : t \notin StoredKeys /\ JWT_decode(t) = Null}

\* C19: on the shared routes in multi-user mode a bearer value that is
\* neither a stored API key nor decodable as a JWT is rejected with 401,
\* and no request carrying it ever starts an introspection call.
C19_UndecodableBearerNeverIntrospected ==
  /\ []((mounted \in SharedRouteMiddlewares /\ config.multiUserMode
           /\ last # Null /\ HoldsBearer(last, Undecodable)) =>
          (Rejected401(last) /\ last.calls = 0))
  /\ [][\A t \in Undecodable : ~StartsCall(Header("Bearer", t))]_vars

\* The Authorization header is absent or not of the form Bearer <token>.
NotBearerForm(auth) ==
  auth = NoHeader \/ auth.scheme # "Bearer" \/ auth.token = EmptyTok

\* C20: in multi-user mode every middleware rejects with 401, without
\* calling next(), a request whose Authorization header is absent or not
\* of the form Bearer <token>.
C20_NonBearerHeaderRejected ==
  (config.multiUserMode /\ last # Null /\ NotBearerForm(last.auth)) =>
    Rejected401(last)

\* ------------------------------------------------------------------------
\* Workspace scoping (C21, C22)
\* ------------------------------------------------------------------------
NonAdminWithUser == ~isAdminRequest(response) /\ response.user # Null

\* The parts of a query other than where.workspace_users.some.user_id; an
\* absent where, workspace_users or some clause counts as an empty one.
Rest(q) ==
  LET where == IF q.where = Null THEN EmptyWhere ELSE q.where
      wu    == IF where.workspace_users = Null THEN EmptyWU
               ELSE where.workspace_users
      some  == IF wu.some = Null THEN EmptySome ELSE wu.some
  IN [select |-> q.select, include |-> q.include, slug |-> where.slug,
      none |-> wu.none, role |-> some.role]

\* C21: for a caller that is not an admin request and has a local user,
\* scopeWorkspaceQuery returns a query whose
\* where.workspace_users.some.user_id is that user's id, whatever user id
\* the input carried there, with every other condition and option of the
\* input unchanged; the input query itself is left as it was.
C21_ScopedToCallerRestPreserved ==
  /\ []((returned.op = "scopeWorkspaceQuery" /\ NonAdminWithUser) =>
          /\ returned.value # Null
          /\ returned.value.where.workspace_users.some.user_id
               = response.user.id
          /\ Rest(returned.value) = Rest(prismaQuery))
  /\ [][prismaQuery' = prismaQuery]_vars

\* The input already names another user, and the result names the caller.
C21_Witness ==
  /\ returned.op = "scopeWorkspaceQuery" /\ NonAdminWithUser
  /\ response.user.id = 2
  /\ prismaQuery.where # Null /\ prismaQuery.where.workspace_users # Null
  /\ prismaQuery.where.workspace_users.some
       = [user_id |-> 1, role |-> "manager"]
  /\ prismaQuery.where.workspace_users.none # Null
  /\ prismaQuery.select = "id"
  /\ returned.value.where.workspace_users.some
       = [user_id |-> 2, role |-> "manager"]

\* C22: for a caller that is not an admin request and has no local user,
\* scopeWorkspaceQuery and getWorkspaceForRequest return null,
\* getAccessibleWorkspaceIds returns an empty list, and no query is sent to
\* the workspaces table.
C22_NoUserNoQuery ==
  (~isAdminRequest(response) /\ response.user = Null) =>
    /\ issued = <<>>
    /\ returned.op \in {"scopeWorkspaceQuery", "getWorkspaceForRequest"} =>
         returned.value = Null
    /\ returned.op = "getAccessibleWorkspaceIds" => returned.value = {}

\* A default principal without local user asked for its workspace ids.
C22_Witness ==
  /\ response.principal # Null /\ response.principal.type = "default"
  /\ response.user = Null
  /\ returned.op = "getAccessibleWorkspaceIds"
  /\ returned.value = {} /\ issued = <<>>

\* ------------------------------------------------------------------------
\* Termination (C23)
\* ------------------------------------------------------------------------
\* C23: every request in flight is completed in the end, whether or not the
\* identity provider answers.
C23_EveryRequestCompletes ==
  \A r \in Requests : (slots[r] # Idle) ~> (slots[r] = Idle)

\* ------------------------------------------------------------------------
\* The guard of API key generation (C24)
\* ------------------------------------------------------------------------
\* The bearer token of the request is a JWT signed with JWT_SECRET that has
\* not expired, and in multi-user mode carries id, username and role admin.
SignedAdminToken(l) ==
  /\ l.auth.scheme = "Bearer" /\ l.auth.token # EmptyTok
  /\ l.auth.token.kind = "jwt" /\ l.auth.token.sig = "JWT_SECRET"
  /\ config.jwtSecret
  /\ config.multiUserMode =>
       /\ l.auth.token.id # NoNum /\ l.auth.token.username # None
       /\ l.auth.token.role = "admin"

\* C24 (as stated): requireAdminJWT calls next() only for a bearer token
\* signed with JWT_SECRET that in multi-user mode carries id, username and
\* role admin, and rejects stored API keys and externally issued JWTs with
\* 401.
C24_OnlySignedAdminJwt_401 ==
  (mounted = "requireAdminJWT" /\ last # Null) =>
    /\ last.out.nexts = 1 => SignedAdminToken(last)
    /\ HoldsBearer(last, StoredKeys \cup ExternalJwts) => Rejected401(last)

\* C24 (amended): requireAdminJWT calls next() only for a bearer token
\* signed with JWT_SECRET that in multi-user mode carries id, username and
\* role admin; stored API keys and externally issued JWTs never reach the
\* handler: they are rejected with 401, or with 500 when JWT_SECRET is not
\* set.
C24_OnlySignedAdminJwt ==
  (mounted = "requireAdminJWT" /\ last # Null) =>
    /\ last.out.nexts = 1 => SignedAdminToken(last)
    /\ HoldsBearer(last, StoredKeys \cup ExternalJwts) =>
         /\ last.out.nexts = 0 /\ last.out.reqUser = Null
         /\ last.out.status = IF config.jwtSecret THEN 401 ELSE 500

\* An external JWT is turned away in multi-user mode with the secret set.
C24_Witness ==
  /\ mounted = "requireAdminJWT" /\ last # Null
  /\ config.multiUserMode /\ config.jwtSecret
  /\ last.auth = Header("Bearer", ExtJwtA)
  /\ Rejected401(last)

\* ------------------------------------------------------------------------
\* API keys on admin-only routes (C25)
\* ------------------------------------------------------------------------
\* C25: in multi-user mode requireAdmin and adminOnlyAuth call next() for a
\* stored API key exactly when the user who created it exists, has role
\* admin and is not suspended, and so give the request the same answer.
C25_KeyAcceptedOnlyForActiveAdminCreator ==
  (config.multiUserMode /\ mounted \in {"requireAdmin", "adminOnlyAuth"}
     /\ last # Null /\ HoldsBearer(last, StoredKeys)) =>
    /\ last.out.nexts = 1 <=> CreatorIsActiveAdmin(last.auth.token)
    /\ requireAdmin(last.auth, config, ApiKeys, users, now).nexts
         = validApiKey(last.auth, ApiKeys).nexts

\* ------------------------------------------------------------------------
\* The expiry pre-check (C26)
\* ------------------------------------------------------------------------
\* The token's exp is not a number, or lies more than the allowed skew in
\* the past.
Stale(token) == token.exp = NoNum \/ now > token.exp + skew

\* C26: where external tokens are validated, a request arriving with an
\* external token whose exp is not numeric or more than 60 seconds in the
\* past is rejected with 401 in the step it arrives, without a cache
\* lookup result and without an introspection call.
C26_StaleTokenRejectedAtOnce ==
  [][\A auth \in clients \cap ExternalBearers :
       (Introspecting /\ Stale(auth.token)) =>
         /\ ~\E r \in Requests :
               /\ slots[r] = Idle /\ slots'[r] # Idle
               /\ slots'[r].auth = auth
         /\ (last' # Null /\ last'.auth = auth /\ slots' = slots) =>
              /\ Rejected401(last')
              /\ last'.calls = 0 /\ last'.hit = Null]_vars

\* ------------------------------------------------------------------------
\* Issuer and audience (C27)
\* ------------------------------------------------------------------------
\* An expected value is configured and the result's value is not equal to
\* it; an absent value of the result is not equal to any expected value.
Mismatch(expected, actual) == expected # None /\ actual # expected

\* C27: an active, unexpired introspection result is rejected exactly when
\* an expected issuer is configured and the result's iss differs from it or
\* is absent, or an expected audience is configured and the result's aud
\* differs from it or is absent.
C27_RejectedExactlyOnConfiguredMismatch ==
  verdict # NoVerdict =>
    (verdict.rejected <=>
       \/ Mismatch(checked.cfg.issuer, checked.result.iss)
       \/ Mismatch(checked.cfg.audience, checked.result.aud))

\* ------------------------------------------------------------------------
\* Expired introspection results (C28)
\* ------------------------------------------------------------------------
\* The exp the provider reports for the token has passed.
ExpPassed(token) == token.exp # NoNum /\ token.exp * 1000 < DateNow(now)

\* The introspection call of request r comes back in this step with an
\* active result.
CameBackActive(r) ==
  /\ slots[r] # Idle /\ slots[r].pc \in {"body", "calljson"}
  /\ slots'[r] # slots[r]
  /\ IF slots'[r] = Idle THEN last' # Null /\ last'.resp = "active"
     ELSE slots'[r].pc \in {"delete", "userget"}

\* C28: when the introspection call of a request comes back active with an
\* exp that has already passed, the request is rejected with 401 in that
\* step and nothing is written to a cache.
C28_ExpiredResultRejectedNotCached ==
  [][\A r \in Requests :
       (CameBackActive(r) /\ ExpPassed(slots[r].auth.token)) =>
         /\ slots'[r] = Idle
         /\ Rejected401(last')
         /\ introspectionCache' = introspectionCache
         /\ cache_data' = cache_data]_vars

\* ------------------------------------------------------------------------
\* The fallback of validateViaIntrospection (C29)
\* ------------------------------------------------------------------------
\* The rows of cache_data stored under the token's hash that had not
\* expired at date t.
LiveRows(token, t) ==
  SelectSeq(cache_data, LAMBDA row :
    row.name = cacheKey(hashToken(token)) /\ row.expiresAt > DateNow(t))

\* The introspection result request r goes on with after this step.
ResultUsed(r) ==
  IF slots'[r] = Idle THEN last'.result ELSE slots'[r].meta.result

\* C29: when the introspection call of validateViaIntrospection fails, the
\* request goes on with a result only if cache_data holds, when the lookup
\* made at that moment is answered, a row under the hash of its token with
\* an active result that had not expired at that moment, and then with
\* that row's result, stored for the same token; otherwise it is rejected
\* with 401.
C29_FallbackOnlyToLiveEntry ==
  [][\A r \in Requests :
       (mounted \in ExternalValidators /\ CallFailsNow(r)) =>
         LET live == LiveRows(slots[r].auth.token, LookupDate(r)) IN
         IF live # <<>> /\ Head(live).data.active
         THEN /\ ResultUsed(r) = Head(live).data
              /\ Head(live).data.forToken = slots[r].auth.token
         ELSE /\ slots'[r] = Idle /\ last' # Null
              /\ last'.result = Null
              /\ Rejected401(last') /\ NothingAttached(last')]_vars

\* A request missed the cache, its call was thrown, and it was let through
\* on the entry another request had written in the meantime.
C29_Witness ==
  /\ mounted = "validateExternalToken"
  /\ last # Null /\ last.calls = 1 /\ last.resp = "throw"
  /\ last.hit = Null /\ last.fallback # Null
  /\ last.result = last.fallback
  /\ last.out.nexts = 1

\* ------------------------------------------------------------------------
\* The account made for a new external identity (C30)
\* ------------------------------------------------------------------------
\* The rows of users that syncExternalUser created.
CreatedBySync == {u \in users : u.id \notin {v.id : v \in InitUsers}}

\* C30: a user created by syncExternalUser never exists without its
\* externalId and externalProvider, in any state, including the states
\* between the create and the update and those a concurrent request sees.
C30_CreatedUserAlwaysLinked ==
  \A u \in CreatedBySync : u.externalId # None /\ u.externalProvider # None

\* ------------------------------------------------------------------------
\* The outcome of a failed admin-token validation (C31)
\* ------------------------------------------------------------------------
\* What the mounted middleware's admin-token validation answers to header h.
\* On unifiedAuth that is the admin branch, its lookups answered from the
\* users table as it is.
AdminTokenOutcome(h) ==
  IF mounted = "requireAdminJWT" THEN requireAdminJWT(h, config, now)
  ELSE IF adminBranch(h, now).done THEN adminBranch(h, now).out
  ELSE LET adminJWT == verifyAdminJWTFromRequest(h, now)
           byId     == UserById(users, adminJWT.id)
       IN adminOutcome(adminJWT,
                       IF byId = Null /\ adminJWT.username # None
                       THEN UserByUsername(users, adminJWT.username) ELSE byId)

\* Header h carries a JWT that reaches the admin-token validation of the
\* mounted middleware (on unifiedAuth: a token whose role claim is admin)
\* and fails it: the signature does not verify, the token has expired, or
\* its role is absent or not admin.
FailsAdminValidation(h) ==
  /\ startsWithBearer(h) /\ splitToken(h) # Null
  /\ splitToken(h).kind = "jwt"
  /\ mounted = "unifiedAuth" => splitToken(h).role = "admin"
  /\ AdminTokenOutcome(h).nexts = 0
  /\ \/ JWT_verify(splitToken(h), config.jwtSecret, now) = Null
     \/ splitToken(h).role # "admin"

\* C31: with JWT_SECRET set, every failure of admin-token validation
\* (signature mismatch, expired token, role absent or not admin) is answered
\* with the same status code and the same error body: the answer to a
\* request that failed it is the answer every other failing token gets.
C31_OneOutcomeForEveryFailure ==
  (mounted \in {"requireAdminJWT", "unifiedAuth"} /\ config.jwtSecret
     /\ last # Null /\ last.out.nexts = 0
     /\ FailsAdminValidation(last.auth)) =>
    \A h \in Headers : FailsAdminValidation(h) =>
      /\ AdminTokenOutcome(h).status = last.out.status
      /\ AdminTokenOutcome(h).error = last.out.error

\* ------------------------------------------------------------------------
\* Failing stores (C32)
\* ------------------------------------------------------------------------
\* The first cache read of the request in slot sl failed although the
\* table held live data for its token.
ReadFailed(sl) == "missed" \in DOMAIN sl /\ sl.missed # Null

\* The CacheData.new of request r fails in this step.
NewFailsNow(r) ==
  /\ slots[r] # Idle /\ slots[r].pc = "create"
  /\ slots'[r] # slots[r] /\ cache_data' = cache_data

\* The CacheData.delete of request r fails in this step: the request goes
\* on without reaching CacheData.new.
DeleteFailsNow(r) ==
  /\ slots[r] # Idle /\ slots[r].pc = "delete"
  /\ slots'[r] # slots[r] /\ slots'[r].pc # "create"

\* Where validateExternalToken is after setCachedIntrospection returned
\* for result body: rejected by the checks of the result, or on its way to
\* findByExternalId with it.
AfterWrite(r, body) ==
  IF introspectionRejected(body, config)
  THEN /\ slots'[r] = Idle
       /\ last' = DoneWith(slots[r].auth, InvalidOrExpired,
                           Meta(1, Null, "active", Null, body), NoSync)
  ELSE slots'[r] = SyncSlot("find", slots[r].auth,
                            Meta(1, Null, "active", Null, body),
                            externalUserOf(body), Null, FALSE)

\* The first cache read of request r is answered in this step and gives
\* the request no result, the read having missed or failed.
ReadsNothing(r) ==
  /\ slots[r].pc = "cacheget" /\ slots'[r] # slots[r]
  /\ IF slots'[r] = Idle THEN last' # Null /\ last'.hit = Null
     ELSE "meta" \in DOMAIN slots'[r] => slots'[r].meta.hit = Null

\* An EventLogs.logEvent settles in this step.
LogSettles == eventLogs'.pending < eventLogs.pending

\* What holds of every step, whether a store fails in it or not.
StoreFailuresSwallowed ==
  /\ \A r \in Requests :
       \* a request whose first read gave it nothing calls the endpoint
       /\ ReadsNothing(r) => slots'[r].pc = "call"
       \* a failed call with nothing read in the fallback lookup is rejected
       /\ (CallFailsNow(r) /\ slots'[r] = Idle /\ last'.fallback = Null) =>
            /\ Rejected401(last') /\ last'.result = Null
       \* a failed write leaves the request where a write leaves it
       /\ NewFailsNow(r) => AfterWrite(r, slots[r].introspection)
       /\ DeleteFailsNow(r) => AfterWrite(r, slots[r].introspection)
  \* a logEvent that settles, written or failed, leaves every request in
  \* flight at its await, and the users and the cache as they are
  /\ LogSettles =>
       /\ slots' = slots /\ last' = Null
       /\ users' = users /\ cache_data' = cache_data

\* C32 (amended): failures of the cache store and of audit logging are
\* swallowed.  A failed cache read is treated as a miss: after a failed
\* first read the endpoint is called and its answer decides the request,
\* and a failed call with a failed fallback read is rejected.  After a
\* failed cache write the request goes on with the provider's result
\* exactly as after a successful write, and a failed audit write changes
\* nothing of any request.
C32_StoreFailuresSwallowed == [][StoreFailuresSwallowed]_vars

\* A request whose first read failed is rejected after its call although
\* the table held a result that passes the checks and the identity has a
\* linked account that is not suspended.
RejectedForFailedRead(r) ==
  /\ ReadFailed(slots[r])
  /\ ~introspectionRejected(slots[r].missed, config)
  /\ \E u \in users : /\ u.externalId = slots[r].missed.sub
                      /\ u.externalProvider = "keystone-core-api"
                      /\ ~u.suspended
  /\ slots'[r] = Idle /\ last' # Null /\ last'.out.nexts = 0

\* C32 (as stated): failures of the cache store or of audit logging never
\* change an authentication outcome: a failed cache read is treated as a
\* miss, a failed cache write or audit write is swallowed, and the request
\* is accepted or rejected exactly as it would have been had the store
\* operation succeeded.
C32_OutcomeAsIfStoreWorked ==
  [][/\ StoreFailuresSwallowed
     /\ \A r \in Requests : ~RejectedForFailedRead(r)]_vars

\* An audit write has just failed while a request is in flight that the
\* provider reported active and that is past setCachedIntrospection with
\* the table empty, so the write of its result failed too.
C32_Witness ==
  /\ mounted = "validateExternalToken"
  /\ eventLogs.failed
  /\ cache_data = <<>>
  /\ \E r \in Requests :
       /\ slots[r] # Idle /\ slots[r].pc = "find"
       /\ slots[r].meta.calls = 1 /\ slots[r].meta.resp = "active"

\* ------------------------------------------------------------------------
\* HTTPS for the introspection endpoint (C33)
\* ------------------------------------------------------------------------
\* C33: when external authentication is enabled, HTTPS is required
\* (NODE_ENV production and EXTERNAL_AUTH_REQUIRE_HTTPS not "false") and
\* EXTERNAL_AUTH_API_URL does not use the https scheme, loading the
\* configuration fails with an error.
C33_PlainHttpFailsLoading ==
  (/\ loadResult # NotLoaded
   /\ processEnv.EXTERNAL_AUTH_ENABLED = "true"
   /\ processEnv.NODE_ENV = "production"
   /\ processEnv.EXTERNAL_AUTH_REQUIRE_HTTPS # "false"
   /\ URL_protocol(processEnv.EXTERNAL_AUTH_API_URL) # "https:")
    => loadResult.error # None

\* ------------------------------------------------------------------------
\* One response or one next() (C34)
\* ------------------------------------------------------------------------
\* Either a response was sent and next() was not called, or next() was
\* called once and no response was sent.
ExactlyOneOutcome(out) ==
  \/ out.status # 0 /\ out.nexts = 0
  \/ out.status = 0 /\ out.nexts = 1

\* C34: for every request and every middleware exactly one of the two
\* happens, exactly once: a response is sent or next() is called.  Every
\* request that has finished has done exactly one of them, and every
\* request in flight finishes.
C34_OneResponseOrOneNext ==
  /\ [](last # Null => ExactlyOneOutcome(last.out))
  /\ \A r \in Requests :
       (slots[r] # Idle) ~> (slots[r] = Idle /\ last # Null
                               /\ ExactlyOneOutcome(last.out))


\* C35: whenever a shared-route middleware calls next() for a request on the
\* strength of an introspection result, the result has a subject,
\* response.locals.user is set, and the stored record of that user is the
\* one linked to the introspected subject.
AcceptedExternally(l) ==
  l # Null /\ l.result # Null /\ l.out.nexts = 1

LinkedTo(u, sub) ==
  u # Null /\ \E stored \in users : stored.id = u.id /\ stored.externalId = sub

C35_AcceptedExternalUserIsLinked ==
  AcceptedExternally(last) =>
    /\ last.result.sub # None
    /\ LinkedTo(last.out.user, last.result.sub)

\* C36: a request that ends in rejection leaves the users table unchanged:
\* the step that sends the rejection writes no user, and the request has
\* not linked a user on its way there.  Each step is one request's, so a
\* change of users in the step that ends request r is a write of r.
RejectedStep(r) ==
  /\ slots[r] # Idle
  /\ slots'[r] = Idle
  /\ last' # Null
  /\ last'.out.status # 0

HasLinked(sl) == sl.pc \in {"refresh", "catchrefresh"}

RejectedWritesNothing ==
  \A r \in Requests :
    RejectedStep(r) => users' = users /\ ~HasLinked(slots[r])

C36_RejectedRequestWritesNoUser == [][RejectedWritesNothing]_vars

\* C37: whatever the interleaving of the setCachedIntrospection calls for
\* one token fingerprint, the table holds at most one row for that
\* fingerprint, and a row holds an active result written for it.
RowsOf(tokenHash) ==
  SelectSeq(cache_data, LAMBDA row : row.name = cacheKey(tokenHash))

C37_OneEntryPerFingerprint ==
  \A token \in Tokens :
    /\ Len(RowsOf(hashToken(token))) <= 1
    /\ \A i \in 1..Len(RowsOf(hashToken(token))) :
         LET data == RowsOf(hashToken(token))[i].data
         IN data.active /\ hashToken(data.forToken) = hashToken(token)

\* C38: the in-memory cache never serves an expired entry and loses only
\* expired ones.  A step in which a request takes its introspection result
\* from the Map takes the data of the entry under the token's key, whose
\* expiresAt is later than Date.now(); a step after which a key is gone
\* from the Map removed an entry whose expiresAt had passed.
ServedFromMap(m) ==
  mounted \notin ExternalValidators /\ m.calls = 0 /\ m.hit # Null

LiveEntry(auth, data) ==
  LET cached == MapGet(introspectionCache, memCacheKey(splitToken(auth)))
  IN /\ cached # Null
     /\ cached.data = data
     /\ cached.expiresAt > DateNow(now)

\* The request that arrives in this step is answered at once, or goes on
\* to User.get with the result it found in the Map.
LiveEntryServed ==
  /\ (slots' = slots /\ last' # Null /\ ServedFromMap(last')) =>
       LiveEntry(last'.auth, last'.hit)
  /\ \A r \in Requests :
       (slots[r] = Idle /\ slots'[r] # Idle /\ slots'[r].pc = "userget"
          /\ ServedFromMap(slots'[r].meta)) =>
         LiveEntry(slots'[r].auth, slots'[r].meta.hit)

OnlyExpiredRemoved ==
  \A e \in introspectionCache :
    MapGet(introspectionCache', e.key) = Null => e.expiresAt < DateNow(now)

C38_MemoryCacheServesOnlyLiveEntries ==
  [][LiveEntryServed /\ OnlyExpiredRemoved]_vars

\* A request is waiting for the provider's answer while the Map holds,
\* under its token's key, an entry whose expiresAt is not later than now:
\* the entry is there and is not served.
ExpiredEntryFor(auth) ==
  LET cached == MapGet(introspectionCache, memCacheKey(splitToken(auth)))
  IN cached # Null /\ cached.expiresAt <= DateNow(now)

C38_Witness ==
  \E r \in Requests :
    slots[r] # Idle /\ slots[r].pc = "fetch" /\ ExpiredEntryFor(slots[r].auth)
====
